---- MODULE Spec2Model ----
(***************************************************************************)
(* The asynchronous media-processing pipeline of the dubbing server:       *)
(* the vocal-removal and composite-dubbing job stores (database.py), the   *)
(* enqueue handlers (app_routes.py) and the two worker loops with their    *)
(* pipeline executors (worker.py).                                         *)
(*                                                                         *)
(* Granularity.  The worker loops are coroutines of one asyncio event      *)
(* loop: between two awaits a loop runs without any other coroutine        *)
(* running (variable "running").  The handlers declared with a plain def   *)
(* (request_vocal_removal, delete_user_dubbing_record) run in the          *)
(* threadpool and interleave with everything at each database call.        *)
(***************************************************************************)
EXTENDS Integers, Sequences, FiniteSets, TLC

\* ----------------------------------------------------------------- bounds
\* enqueue calls accepted in one behaviour: of both kinds together (Spec),
\* of request_vocal_removal alone (SpecVocal), of create_composite_video
\* alone (SpecComposite).  Restarts and deletions are not bounded.
MaxEnqueue == 2
MaxRequests == 3
MaxSubmissions == 2
MaxFaultyJobs == 2
MaxModeJobs == 1
MaxReuseJobs == 4
MaxDigestJobs == 2
MaxLiveJobs == 2
MaxTaskJobs == 2
MaxPolledJobs == 2
MaxCount == 2
MaxRounds == 2
MaxTwoWorkerRequests == 2
MaxPolledRequests == 2

\* threadpool threads that can be inside request_vocal_removal at once
Threads == {1, 2}

\* ------------------------------------------------------------- the inputs
NULL == "NULL"

UrlA == "http://cdn/a.mkv"
UrlB == "http://cdn/b"
Urls == {UrlA, UrlB}

\* pathlib.Path(url).suffix on the URLs of the model
PathSuffix(url) == IF url = UrlA THEN ".mkv" ELSE ""

\* video_ext = Path(url).suffix or '.mp4'
VideoExt(url) == IF PathSuffix(url) = "" THEN ".mp4" ELSE PathSuffix(url)

\* hexdigest()[:16] keeps 16 hexadecimal digits of the digest: 16^16 values,
\* for URLs that are strings of any length. DigestSpace is the number of
\* values the digest of the URLs of DigestUrls can take, and DigestUrls has
\* one URL more than that.
DigestSpace == 2

HexDigit == <<"0", "1", "2", "3", "4", "5", "6", "7",
              "8", "9", "a", "b", "c", "d", "e", "f">>

DigestValues == {"000000000000000" \o HexDigit[i] : i \in 1..DigestSpace}

DigestUrls == {"http://cdn/c" \o HexDigit[i] : i \in 1..(DigestSpace + 1)}

\* the messages of the exceptions the executors raise
ErrDownload == "download video failed"
ErrExtract == "extract audio failed"
ErrSeparate == "vocal separation failed"
ErrMerge == "merge video failed"

VARIABLES
    engine,      \* DATABASE_TYPE: "sqlite" or "mysql"
    digest,      \* hashlib.md5(url.encode()).hexdigest()[:16] of the URLs of DigestUrls
    lifecycle,   \* the worker tasks with a requested cancellation; the last call
    rc,          \* table recommended_clips: a set of rows
    gt,          \* the generate_recommendations_task call in progress
    vr,          \* table vocal_removal_tasks: a set of rows
    vrSeq,       \* rows ever inserted into vocal_removal_tasks
    reqs,        \* per thread: the request_vocal_removal call it is inside
    vw,          \* the vocal_removal_worker coroutine and its executor
    rw,          \* the vocal_removal_worker of a run_worker.py process
    ud,          \* table user_dubbings: a set of rows
    udSeq,       \* rows ever inserted into user_dubbings
    mc,          \* table media_cache: a set of rows
    files,       \* the cache files and user recordings that exist on disk
    cw,          \* the composite_video_worker coroutine and its executor
    dirs,        \* the working directories of the process's executors on disk
    running,     \* the coroutine the event loop is running, or "none"
    response,    \* the HTTP response sent by the last step, or <<>>
    result,      \* the dict an executor returned in the last step, or <<>>
    enqueued,    \* enqueue calls made so far
    budget       \* enqueue calls the behaviour accepts

vars == <<engine, digest, lifecycle, rc, gt, vr, vrSeq, reqs, vw, rw, ud, udSeq, mc, files, cw,
          dirs, running, response, result, enqueued, budget>>

\* hashlib.md5(url.encode()).hexdigest()[:16]: the value computed for UrlA and
\* UrlB, and for the URLs of DigestUrls the value the behaviour started with
get_url_hash(url) ==
    IF url = UrlA THEN "67d655ed1ad33c30"
    ELSE IF url = UrlB THEN "0907116417582f50"
    ELSE digest[url]

\* start_worker() has created the worker tasks and no cancel() was called
WorkersStarted == [must_cancel |-> {}, last_call |-> "start_worker"]

\* the URLs of DigestUrls are not hashed
NoDigests == [u \in {} |-> NULL]

\* what the vocal-removal side leaves alone
compSide == <<ud, udSeq, mc, files, cw>>

\* what the composite-dubbing side leaves alone
vocalSide == <<vr, vrSeq, reqs, vw>>

\* ------------------------------------------------------------ the database
Max(S) == IF S = {} THEN 0 ELSE CHOOSE m \in S : \A n \in S : n <= m

\* a key generator that hands out the same id again and again
NewId_Fixed(rows, seq) == 1

\* Column(Integer, primary_key=True, autoincrement=True).  SQLAlchemy renders
\* no AUTOINCREMENT keyword for SQLite, whose rowid is then one more than the
\* largest rowid in the table; MySQL's AUTO_INCREMENT counter never goes back.
NewId(rows, seq) ==
    IF engine = "sqlite" THEN Max({r.id : r \in rows}) + 1 ELSE seq + 1

\* Query.first(): the row with the smallest rowid, as a sequence of 0 or 1 row
First(rows) ==
    IF rows = {} THEN <<>>
    ELSE <<CHOOSE r \in rows : \A q \in rows : r.id <= q.id>>

\* Query.all(): the rows by rowid
RECURSIVE AllRows(_)
AllRows(rows) ==
    IF rows = {} THEN <<>>
    ELSE LET r == First(rows)[1] IN <<r>> \o AllRows(rows \ {r})

get_vocal_removal_task(video_url) ==
    First({r \in vr : r.video_url = video_url})

\* unique=True on video_url: the INSERT of a second row for a URL fails
\* a table without the unique index
VocalInsertAllowed_NoIndex(video_url) == TRUE

VocalInsertAllowed(video_url) == \A r \in vr : r.video_url # video_url

\* create_vocal_removal_task: the table after the INSERT
create_vocal_removal_task(video_url) ==
    vr \cup {[created_at |-> vrSeq + 1,
              id |-> NewId(vr, vrSeq),
              video_url |-> video_url,
              status |-> "pending",
              output_video_path |-> NULL,
              error_message |-> NULL]}

\* update_vocal_removal_task(db, task_id, **kwargs): kwargs is a function from
\* column names; a missing row is left missing
SetVocalColumns(row, kwargs) ==
    [row EXCEPT
        !.status = IF "status" \in DOMAIN kwargs THEN kwargs.status ELSE @,
        !.output_video_path = IF "output_video_path" \in DOMAIN kwargs
                                  THEN kwargs.output_video_path ELSE @,
        !.error_message = IF "error_message" \in DOMAIN kwargs
                              THEN kwargs.error_message ELSE @]

update_vocal_removal_task(task_id, kwargs) ==
    {IF r.id = task_id THEN SetVocalColumns(r, kwargs) ELSE r : r \in vr}

\* a query that would also return the rows left in processing
get_pending_vocal_removal_tasks_AlsoProcessing ==
    AllRows({r \in vr : r.status \in {"pending", "processing"}})

get_pending_vocal_removal_tasks == AllRows({r \in vr : r.status = "pending"})

\* a delete that removes nothing
delete_vocal_removal_task_Keeps(video_url) == vr

delete_vocal_removal_task(video_url) == {r \in vr : r.video_url # video_url}

\* a purge that also removes the records left in processing
cleanup_failed_vocal_removal_tasks_AlsoProcessing ==
    {r \in vr : r.status \notin {"failed", "processing"}}

cleanup_failed_vocal_removal_tasks == {r \in vr : r.status # "failed"}


\* ------------------------------------------------ POST /vocal-removal
\* a thread outside request_vocal_removal; inside, it holds the handler's
\* position, its video_url and the created_at of the existing_task it read
Idle == [pc |-> "idle", video_url |-> NULL, existing_task |-> 0]

\* VocalRemovalResponse
VocalRemovalResponse(code, status, video_url, output_video_path, error_message) ==
    <<[code |-> code, status |-> status, video_url |-> video_url,
       output_video_path |-> output_video_path,
       error_message |-> error_message]>>

Quiet == response' = <<>> /\ result' = <<>>

\* if existing_task.status == "failed": the old task is deleted and a new
\* one created; any other status is returned as it is
\* a handler that also re-admits completed records
IsRetried_AlsoCompleted(existing_task) ==
    existing_task.status \in {"failed", "completed"}

IsRetried(existing_task) == existing_task.status = "failed"

\* request_vocal_removal up to its first write or its return: the lookup of
\* the existing task and the branch taken on it
RequestVocalRemoval(t, video_url) ==
    /\ reqs[t].pc = "idle"
    /\ \A other \in Threads : reqs[other].pc = "idle" => t <= other
    /\ enqueued < budget
    /\ enqueued' = enqueued + 1
    /\ LET existing_task == get_vocal_removal_task(video_url) IN
         IF existing_task # <<>> /\ ~IsRetried(existing_task[1])
         THEN /\ response' = VocalRemovalResponse(200, existing_task[1].status,
                                 existing_task[1].video_url,
                                 existing_task[1].output_video_path,
                                 existing_task[1].error_message)
              /\ reqs' = reqs
         ELSE /\ response' = <<>>
              /\ reqs' = [reqs EXCEPT ![t] =
                            [pc |-> IF existing_task # <<>> THEN "delete" ELSE "create",
                             video_url |-> video_url,
                             existing_task |-> IF existing_task # <<>>
                                                 THEN existing_task[1].created_at
                                                 ELSE 0]]
    /\ result' = <<>>
    /\ UNCHANGED compSide
    /\ UNCHANGED <<engine, digest, lifecycle, rc, gt, rw, vr, vrSeq, vw, dirs, running, budget>>

\* delete_vocal_removal_task(db, video_url) of the failed branch
RequestDelete(t) ==
    /\ reqs[t].pc = "delete"
    /\ vr' = delete_vocal_removal_task(reqs[t].video_url)
    /\ reqs' = [reqs EXCEPT ![t].pc = "create"]
    /\ Quiet
    /\ UNCHANGED compSide
    /\ UNCHANGED <<engine, digest, lifecycle, rc, gt, rw, vrSeq, vw, dirs, running, enqueued, budget>>

\* create_vocal_removal_task and the response; an IntegrityError of the INSERT
\* leaves the handler as a 500
RequestCreate(t) ==
    /\ reqs[t].pc = "create"
    /\ IF VocalInsertAllowed(reqs[t].video_url)
       THEN /\ vr' = create_vocal_removal_task(reqs[t].video_url)
            /\ vrSeq' = vrSeq + 1
            /\ response' = VocalRemovalResponse(200, "pending", reqs[t].video_url,
                                                NULL, NULL)
       ELSE /\ UNCHANGED <<vr, vrSeq>>
            /\ response' = VocalRemovalResponse(500, NULL, reqs[t].video_url,
                                                NULL, NULL)
    /\ reqs' = [reqs EXCEPT ![t] = Idle]
    /\ result' = <<>>
    /\ UNCHANGED compSide
    /\ UNCHANGED <<engine, digest, lifecycle, rc, gt, rw, vw, dirs, running, enqueued, budget>>

\* get_vocal_removal_status: a threadpool handler, one read; 404 when the
\* URL has no task
GetVocalRemovalStatus(video_url) ==
    /\ LET task == get_vocal_removal_task(video_url) IN
         response' = IF task = <<>>
                     THEN <<[code |-> 404]>>
                     ELSE VocalRemovalResponse(200, task[1].status, task[1].video_url,
                                               task[1].output_video_path,
                                               task[1].error_message)
    /\ result' = <<>>
    /\ UNCHANGED compSide
    /\ UNCHANGED <<engine, digest, lifecycle, rc, gt, rw, vr, vrSeq, reqs, vw, dirs, running, enqueued, budget>>

\* --------------------------------------------- vocal_removal_worker
NoTask == <<>>

WorkerStart == [pc |-> "start", deleted_count |-> 0, pending_tasks |-> <<>>,
                task |-> NoTask, exc |-> NULL, output |-> NULL]

WorkDir(prefix, task) == [prefix |-> prefix, job |-> task.created_at]

\* the purge at the start of vocal_removal_worker
VocalWorkerStartup ==
    /\ vw.pc = "start"
    /\ running = "none"
    /\ running' = "vocal"
    /\ vr' = cleanup_failed_vocal_removal_tasks
    /\ vw' = [vw EXCEPT !.pc = "poll",
                        !.deleted_count = Cardinality(vr) - Cardinality(vr')]
    /\ Quiet
    /\ UNCHANGED compSide
    /\ UNCHANGED <<engine, digest, lifecycle, rc, gt, rw, vrSeq, reqs, dirs, enqueued, budget>>

\* a loop that purges the failed records at every poll
VocalPoll_Purging ==
    /\ \/ vw.pc = "poll" /\ running = "vocal"
       \/ vw.pc = "sleep" /\ running = "none"
    /\ running' = "vocal"
    /\ vr' = cleanup_failed_vocal_removal_tasks
    /\ vw' = [vw EXCEPT !.pc = "iter", !.deleted_count = 0,
                        !.pending_tasks = AllRows({r \in vr' : r.status = "pending"})]
    /\ Quiet
    /\ UNCHANGED compSide
    /\ UNCHANGED <<engine, digest, lifecycle, rc, gt, rw, vrSeq, reqs, dirs, enqueued, budget>>

\* pending_tasks = get_pending_vocal_removal_tasks(db), right after the purge
\* or when asyncio.sleep returns
VocalPoll ==
    /\ \/ vw.pc = "poll" /\ running = "vocal"
       \/ vw.pc \in {"sleep", "backoff"} /\ running = "none"
    /\ running' = "vocal"
    /\ vw' = [vw EXCEPT !.pc = "iter", !.deleted_count = 0,
                        !.pending_tasks = get_pending_vocal_removal_tasks]
    /\ Quiet
    /\ UNCHANGED compSide
    /\ UNCHANGED <<engine, digest, lifecycle, rc, gt, rw, vr, vrSeq, reqs, dirs, enqueued, budget>>

\* the for loop is over: await asyncio.sleep(VOCAL_REMOVAL_CHECK_INTERVAL)
VocalSleep ==
    /\ vw.pc = "iter"
    /\ vw.pending_tasks = <<>>
    /\ vw' = [vw EXCEPT !.pc = "sleep"]
    /\ running' = "none"
    /\ Quiet
    /\ UNCHANGED compSide
    /\ UNCHANGED <<engine, digest, lifecycle, rc, gt, rw, vr, vrSeq, reqs, dirs, enqueued, budget>>

\* an executor that leaves the record pending
ClaimStatus_Pending == "pending"

\* the status the executor writes first
ClaimStatus == "processing"

\* a loop that would start the executor of the next task as a task of its
\* own while the executor of the previous one is still at its download
VocalClaim_Eager ==
    /\ vw.pc \in {"iter", "download"}
    /\ vw.pending_tasks # <<>>
    /\ LET task == Head(vw.pending_tasks) IN
         /\ vr' = update_vocal_removal_task(task.id, [status |-> ClaimStatus])
         /\ vw' = [vw EXCEPT !.pc = "mkdtemp", !.task = <<task>>,
                             !.pending_tasks = Tail(@),
                             !.exc = NULL, !.output = NULL]
    /\ Quiet
    /\ UNCHANGED compSide
    /\ UNCHANGED <<engine, digest, lifecycle, rc, gt, rw, vrSeq, reqs, dirs, running, enqueued, budget>>

\* a loop that would execute the first task of its snapshot again and again
VocalClaim_Again ==
    /\ vw.pc = "iter"
    /\ vw.pending_tasks # <<>>
    /\ LET task == Head(vw.pending_tasks) IN
         /\ vr' = update_vocal_removal_task(task.id, [status |-> ClaimStatus])
         /\ vw' = [vw EXCEPT !.pc = "mkdtemp", !.task = <<task>>,
                             !.exc = NULL, !.output = NULL]
    /\ Quiet
    /\ UNCHANGED compSide
    /\ UNCHANGED <<engine, digest, lifecycle, rc, gt, rw, vrSeq, reqs, dirs, running, enqueued, budget>>

\* process_vocal_removal_task(task) for the next task of the snapshot:
\* update_vocal_removal_task(db, task.id, status="processing")
VocalClaim ==
    /\ vw.pc = "iter"
    /\ vw.pending_tasks # <<>>
    /\ LET task == Head(vw.pending_tasks) IN
         /\ vr' = update_vocal_removal_task(task.id, [status |-> ClaimStatus])
         /\ vw' = [vw EXCEPT !.pc = "mkdtemp", !.task = <<task>>,
                             !.pending_tasks = Tail(@),
                             !.exc = NULL, !.output = NULL]
    /\ Quiet
    /\ UNCHANGED compSide
    /\ UNCHANGED <<engine, digest, lifecycle, rc, gt, rw, vrSeq, reqs, dirs, running, enqueued, budget>>

\* work_dir = tempfile.mkdtemp(...); then the download is awaited
VocalMkdtemp ==
    /\ vw.pc = "mkdtemp"
    /\ dirs' = dirs \cup {WorkDir("vocal_removal", vw.task[1])}
    /\ vw' = [vw EXCEPT !.pc = "download"]
    /\ running' = "none"
    /\ Quiet
    /\ UNCHANGED compSide
    /\ UNCHANGED <<engine, digest, lifecycle, rc, gt, rw, vr, vrSeq, reqs, enqueued, budget>>

\* a step of the try block: it succeeds and the executor goes on, or it
\* fails and the exception leaves the try block through its finally
VocalStep(pc, ok, next, err) ==
    /\ vw.pc = pc
    /\ vw' = IF ok THEN [vw EXCEPT !.pc = next]
                   ELSE [vw EXCEPT !.pc = "rmtree", !.exc = err]
    /\ Quiet
    /\ UNCHANGED compSide
    /\ UNCHANGED <<engine, digest, lifecycle, rc, gt, rw, vr, vrSeq, reqs, dirs, enqueued, budget>>

\* await download_video(...) returns
VocalDownload(ok) ==
    /\ running = "none"
    /\ running' = "vocal"
    /\ VocalStep("download", ok, "extract", ErrDownload)

VocalExtract(ok) ==
    /\ UNCHANGED running
    /\ VocalStep("extract", ok, "separate", ErrExtract)

VocalSeparate(ok) ==
    /\ UNCHANGED running
    /\ VocalStep("separate", ok, "merge", ErrSeparate)

\* how a run of the separation tool can end: the process exits non-zero; it
\* exits 0 but no_vocals.wav is under none of the model directories; it
\* exits 0 and the file is found
DemucsOutcomes == {"nonzero", "no_file", "found"}

\* remove_vocals_with_demucs: the path of the accompaniment, or None
remove_vocals_with_demucs(outcome) ==
    IF outcome = "found" THEN "demucs_output/htdemucs/audio/no_vocals.wav" ELSE NULL

\* no_vocals_path = remove_vocals_with_demucs(...); if not no_vocals_path: raise
VocalSeparateRun(outcome) ==
    VocalSeparate(remove_vocals_with_demucs(outcome) # NULL)

VocalMerge(ok) ==
    /\ UNCHANGED running
    /\ VocalStep("merge", ok, "complete", ErrMerge)

\* an output name that always ends in .mp4
VocalOutputPath_Mp4(video_url) ==
    "/vocal_removed/" \o get_url_hash(video_url) \o "_no_vocals.mp4"

\* relative_path = f"/vocal_removed/{url_hash}_no_vocals{video_ext}"
VocalOutputPath(video_url) ==
    "/vocal_removed/" \o get_url_hash(video_url) \o "_no_vocals" \o VideoExt(video_url)

\* what the executor writes when every step succeeded
VocalCompleted(task) ==
    [status |-> "completed",
     output_video_path |-> VocalOutputPath(task.video_url)]

\* an except clause that records no message
VocalFailed_NoMessage(error_msg) == [status |-> "failed"]

\* what the executor's except clause writes
VocalFailed(error_msg) == [status |-> "failed", error_message |-> error_msg]

VocalComplete ==
    /\ vw.pc = "complete"
    /\ LET task == vw.task[1] IN
         /\ vr' = update_vocal_removal_task(task.id, VocalCompleted(task))
         /\ vw' = [vw EXCEPT !.pc = "rmtree",
                             !.output = VocalOutputPath(task.video_url)]
    /\ Quiet
    /\ UNCHANGED compSide
    /\ UNCHANGED <<engine, digest, lifecycle, rc, gt, rw, vrSeq, reqs, dirs, running, enqueued, budget>>

\* a finally clause that removes nothing
Rmtree_Skipped(work_dir) == dirs

\* the directories shutil.rmtree(work_dir) leaves behind
Rmtree(work_dir) == dirs \ {work_dir}

\* the inner finally: shutil.rmtree(work_dir); without an exception in
\* flight the executor then returns its success dict
VocalRmtree ==
    /\ vw.pc = "rmtree"
    /\ dirs' = Rmtree(WorkDir("vocal_removal", vw.task[1]))
    /\ IF vw.exc = NULL
       THEN /\ result' = <<[job |-> vw.task[1].created_at, kind |-> "vocal",
                            success |-> TRUE, output_path |-> vw.output,
                            error |-> NULL]>>
            /\ vw' = [vw EXCEPT !.pc = "iter", !.task = NoTask, !.output = NULL]
       ELSE /\ result' = <<>>
            /\ vw' = [vw EXCEPT !.pc = "except"]
    /\ response' = <<>>
    /\ UNCHANGED compSide
    /\ UNCHANGED <<engine, digest, lifecycle, rc, gt, rw, vr, vrSeq, reqs, running, enqueued, budget>>

\* except Exception as e: the failed status is written and the executor
\* returns its failure dict
VocalExcept ==
    /\ vw.pc = "except"
    /\ vr' = update_vocal_removal_task(vw.task[1].id, VocalFailed(vw.exc))
    /\ result' = <<[job |-> vw.task[1].created_at, kind |-> "vocal",
                    success |-> FALSE, output_path |-> NULL, error |-> vw.exc]>>
    /\ vw' = [vw EXCEPT !.pc = "iter", !.task = NoTask, !.exc = NULL]
    /\ response' = <<>>
    /\ UNCHANGED compSide
    /\ UNCHANGED <<engine, digest, lifecycle, rc, gt, rw, vrSeq, reqs, dirs, running, enqueued, budget>>

\* ---------------------------------- the vocal worker when a call raises
\* str(e) of the exceptions a store call and tempfile.mkdtemp raise
ErrStore == "database is locked"
ErrMkdtemp == "No space left on device"

\* update_vocal_removal_task(db, task.id, status="processing") raises: the
\* outer try is left for its except clause, no working directory exists yet
VocalClaimRaises ==
    /\ vw.pc = "iter"
    /\ vw.pending_tasks # <<>>
    /\ vw' = [vw EXCEPT !.pc = "except", !.task = <<Head(vw.pending_tasks)>>,
                        !.pending_tasks = Tail(@),
                        !.exc = ErrStore, !.output = NULL]
    /\ Quiet
    /\ UNCHANGED compSide
    /\ UNCHANGED <<engine, digest, lifecycle, rc, gt, rw, vr, vrSeq, reqs, dirs, running, enqueued, budget>>

\* tempfile.mkdtemp raises
VocalMkdtempRaises ==
    /\ vw.pc = "mkdtemp"
    /\ vw' = [vw EXCEPT !.pc = "except", !.exc = ErrMkdtemp]
    /\ Quiet
    /\ UNCHANGED compSide
    /\ UNCHANGED <<engine, digest, lifecycle, rc, gt, rw, vr, vrSeq, reqs, dirs, running, enqueued, budget>>

\* the write of status completed raises inside the inner try
VocalCompleteRaises ==
    /\ vw.pc = "complete"
    /\ vw' = [vw EXCEPT !.pc = "rmtree", !.exc = ErrStore]
    /\ Quiet
    /\ UNCHANGED compSide
    /\ UNCHANGED <<engine, digest, lifecycle, rc, gt, rw, vr, vrSeq, reqs, dirs, running, enqueued, budget>>

\* the seconds the loops sleep between two polls, and after an exception
VOCAL_REMOVAL_CHECK_INTERVAL == 1
COMPOSITE_VIDEO_CHECK_INTERVAL == 1
BackoffSeconds == 10

\* a loop that an exception of an iteration would end
VocalBackoff_Ends == [WorkerStart EXCEPT !.pc = "done"]

\* the loop's except Exception clause: await asyncio.sleep(10); the rest of
\* the for loop is abandoned
VocalBackoff == [WorkerStart EXCEPT !.pc = "backoff"]

\* the write of status failed raises inside the except clause: the
\* exception leaves the executor and reaches the loop
VocalExceptRaises ==
    /\ vw.pc = "except"
    /\ vw' = VocalBackoff
    /\ running' = "none"
    /\ Quiet
    /\ UNCHANGED compSide
    /\ UNCHANGED <<engine, digest, lifecycle, rc, gt, rw, vr, vrSeq, reqs, dirs, enqueued, budget>>

\* get_db_session() or get_pending_vocal_removal_tasks(db) raises
VocalPollRaises ==
    /\ \/ vw.pc = "poll" /\ running = "vocal"
       \/ vw.pc \in {"sleep", "backoff"} /\ running = "none"
    /\ vw' = VocalBackoff
    /\ running' = "none"
    /\ Quiet
    /\ UNCHANGED compSide
    /\ UNCHANGED <<engine, digest, lifecycle, rc, gt, rw, vr, vrSeq, reqs, dirs, enqueued, budget>>

\* ------------------- vocal_removal_worker in a run_worker.py process
\* python run_worker.py: a second process with an event loop of its own,
\* on the same store.  Its working directory is its own (work_dir).
RunWorkerStart == [pc |-> "start", deleted_count |-> 0, pending_tasks |-> <<>>,
                   task |-> NoTask, exc |-> NULL, output |-> NULL,
                   work_dir |-> NULL]

\* no run_worker.py process was started
RunWorkerAbsent == [RunWorkerStart EXCEPT !.pc = "absent"]

\* what a step of the run_worker.py process leaves alone
RunWorkerFrame(changed) ==
    /\ UNCHANGED compSide
    /\ UNCHANGED <<engine, digest, lifecycle, rc, gt, vrSeq, reqs, vw, dirs, running, enqueued, budget>>
    /\ IF "vr" \in changed THEN TRUE ELSE UNCHANGED vr
    /\ IF "result" \in changed THEN TRUE ELSE result' = <<>>
    /\ response' = <<>>

RunWorkerStartup ==
    /\ rw.pc = "start"
    /\ vr' = cleanup_failed_vocal_removal_tasks
    /\ rw' = [rw EXCEPT !.pc = "poll",
                        !.deleted_count = Cardinality(vr) - Cardinality(vr')]
    /\ RunWorkerFrame({"vr"})

RunWorkerPoll ==
    /\ rw.pc \in {"poll", "sleep"}
    /\ rw' = [rw EXCEPT !.pc = "iter", !.deleted_count = 0,
                        !.pending_tasks = get_pending_vocal_removal_tasks]
    /\ RunWorkerFrame({})

RunWorkerSleep ==
    /\ rw.pc = "iter"
    /\ rw.pending_tasks = <<>>
    /\ rw' = [rw EXCEPT !.pc = "sleep"]
    /\ RunWorkerFrame({})

RunWorkerClaim ==
    /\ rw.pc = "iter"
    /\ rw.pending_tasks # <<>>
    /\ LET task == Head(rw.pending_tasks) IN
         /\ vr' = update_vocal_removal_task(task.id, [status |-> ClaimStatus])
         /\ rw' = [rw EXCEPT !.pc = "mkdtemp", !.task = <<task>>,
                             !.pending_tasks = Tail(@),
                             !.exc = NULL, !.output = NULL]
    /\ RunWorkerFrame({"vr"})

RunWorkerMkdtemp ==
    /\ rw.pc = "mkdtemp"
    /\ rw' = [rw EXCEPT !.pc = "download",
                        !.work_dir = WorkDir("vocal_removal", rw.task[1])]
    /\ RunWorkerFrame({})

RunWorkerStep(pc, ok, next, err) ==
    /\ rw.pc = pc
    /\ rw' = IF ok THEN [rw EXCEPT !.pc = next]
                   ELSE [rw EXCEPT !.pc = "rmtree", !.exc = err]
    /\ RunWorkerFrame({})

RunWorkerDownload(ok) == RunWorkerStep("download", ok, "extract", ErrDownload)

RunWorkerExtract(ok) == RunWorkerStep("extract", ok, "separate", ErrExtract)

RunWorkerSeparateRun(outcome) ==
    RunWorkerStep("separate", remove_vocals_with_demucs(outcome) # NULL,
                  "merge", ErrSeparate)

RunWorkerMerge(ok) == RunWorkerStep("merge", ok, "complete", ErrMerge)

RunWorkerComplete ==
    /\ rw.pc = "complete"
    /\ LET task == rw.task[1] IN
         /\ vr' = update_vocal_removal_task(task.id, VocalCompleted(task))
         /\ rw' = [rw EXCEPT !.pc = "rmtree",
                             !.output = VocalOutputPath(task.video_url)]
    /\ RunWorkerFrame({"vr"})

RunWorkerRmtree ==
    /\ rw.pc = "rmtree"
    /\ IF rw.exc = NULL
       THEN /\ result' = <<[job |-> rw.task[1].created_at, kind |-> "vocal",
                            success |-> TRUE, output_path |-> rw.output,
                            error |-> NULL]>>
            /\ rw' = [rw EXCEPT !.pc = "iter", !.task = NoTask, !.output = NULL,
                                !.work_dir = NULL]
       ELSE /\ result' = <<>>
            /\ rw' = [rw EXCEPT !.pc = "except", !.work_dir = NULL]
    /\ RunWorkerFrame({"result"})

RunWorkerExcept ==
    /\ rw.pc = "except"
    /\ vr' = update_vocal_removal_task(rw.task[1].id, VocalFailed(rw.exc))
    /\ result' = <<[job |-> rw.task[1].created_at, kind |-> "vocal",
                    success |-> FALSE, output_path |-> NULL, error |-> rw.exc]>>
    /\ rw' = [rw EXCEPT !.pc = "iter", !.task = NoTask, !.exc = NULL]
    /\ RunWorkerFrame({"vr", "result"})

\* ------------------------------------------------ the composite tables
User == "u7"

get_user_dubbing_by_id(dubbing_id) == First({r \in ud : r.id = dubbing_id})

\* create_user_dubbing(db, **kwargs) as create_composite_video calls it:
\* the table after the INSERT.  UserDubbing has no mode column.
create_user_dubbing(user_id, video_url, user_audio_path) ==
    ud \cup {[created_at |-> udSeq + 1,
              id |-> NewId(ud, udSeq),
              user_id |-> user_id,
              original_video_url |-> video_url,
              user_audio_path |-> user_audio_path,
              status |-> "pending",
              composite_video_path |-> NULL,
              error_message |-> NULL]}

SetDubbingColumns(row, kwargs) ==
    [row EXCEPT
        !.status = IF "status" \in DOMAIN kwargs THEN kwargs.status ELSE @,
        !.composite_video_path = IF "composite_video_path" \in DOMAIN kwargs
                                     THEN kwargs.composite_video_path ELSE @,
        !.error_message = IF "error_message" \in DOMAIN kwargs
                              THEN kwargs.error_message ELSE @]

update_user_dubbing(dubbing_id, kwargs) ==
    {IF r.id = dubbing_id THEN SetDubbingColumns(r, kwargs) ELSE r : r \in ud}

\* a query that would also return the records left in processing
get_pending_user_dubbings_AlsoProcessing ==
    AllRows({r \in ud : r.status \in {"pending", "processing"}})

get_pending_user_dubbings == AllRows({r \in ud : r.status = "pending"})

delete_user_dubbing(dubbing_id, user_id) ==
    {r \in ud : ~(r.id = dubbing_id /\ r.user_id = user_id)}

cleanup_failed_user_dubbings == {r \in ud : r.status # "failed"}

get_media_cache(cache_key) == First({c \in mc : c.cache_key = cache_key})

\* unique=True on cache_key
CacheInsertAllowed(cache_key) == \A c \in mc : c.cache_key # cache_key

\* create_media_cache: the table after the INSERT (rows of media_cache are
\* only ever read by cache_key, their id is left out)
create_media_cache(cache_key, cache_type, file_path, source_url) ==
    mc \cup {[id |-> Cardinality(mc) + 1, cache_key |-> cache_key,
              cache_type |-> cache_type, file_path |-> file_path,
              source_url |-> source_url]}

\* ------------------------------------------------ POST /composite-video
\* audio_filename = f"{uuid.uuid4().hex}_{audio.filename}": a fresh name
UserAudioPath(n) ==
    "/user_audio/" \o (CASE n = 1 -> "1" [] n = 2 -> "2" [] n = 3 -> "3"
                         [] n = 4 -> "4" [] OTHER -> "n") \o "_recording.m4a"

\* create_composite_video: a coroutine of the event loop; the recording is
\* written, then the row is inserted
CreateCompositeVideo(user_id, video_url) ==
    /\ running = "none"
    /\ enqueued < budget
    /\ enqueued' = enqueued + 1
    /\ LET audio_path == UserAudioPath(udSeq + 1) IN
         /\ files' = files \cup {audio_path}
         /\ ud' = create_user_dubbing(user_id, video_url, audio_path)
         /\ response' = <<[code |-> 200, task_id |-> NewId(ud, udSeq),
                           status |-> "pending", composite_video_path |-> NULL,
                           error_message |-> NULL]>>
    /\ udSeq' = udSeq + 1
    /\ result' = <<>>
    /\ UNCHANGED vocalSide
    /\ UNCHANGED <<engine, digest, lifecycle, rc, gt, rw, mc, cw, dirs, running, budget>>

\* a response that would replace the stored error by a fixed text
CompositeVideoResponse_Generic(dubbing) ==
    <<[code |-> 200, task_id |-> dubbing.id, status |-> dubbing.status,
       composite_video_path |-> dubbing.composite_video_path,
       error_message |-> IF dubbing.status = "failed" THEN "failed" ELSE NULL]>>

\* CompositeVideoResponse(task_id=dubbing.id, status=dubbing.status, ...)
CompositeVideoResponse(dubbing) ==
    <<[code |-> 200, task_id |-> dubbing.id, status |-> dubbing.status,
       composite_video_path |-> dubbing.composite_video_path,
       error_message |-> dubbing.error_message]>>

\* get_composite_video_status: a threadpool handler, one SELECT by id; 404
\* when no row has the id
GetCompositeVideoStatus(task_id) ==
    /\ LET dubbing == get_user_dubbing_by_id(task_id) IN
         response' = IF dubbing = <<>>
                     THEN <<[code |-> 404]>>
                     ELSE CompositeVideoResponse(dubbing[1])
    /\ result' = <<>>
    /\ UNCHANGED vocalSide
    /\ UNCHANGED <<engine, digest, lifecycle, rc, gt, rw, ud, udSeq, mc, files, cw, dirs,
                   running, enqueued, budget>>

\* delete_user_dubbing_record: a threadpool handler, one DELETE
DeleteUserDubbingRecord(user_id, dubbing_id) ==
    /\ \E r \in ud : r.id = dubbing_id
    /\ ud' = delete_user_dubbing(dubbing_id, user_id)
    /\ response' = <<[code |-> 200, status |-> "ok"]>>
    /\ result' = <<>>
    /\ UNCHANGED vocalSide
    /\ UNCHANGED <<engine, digest, lifecycle, rc, gt, rw, udSeq, mc, files, cw, dirs, running, enqueued, budget>>

\* --------------------------------------------- composite_video_worker
ErrCache == "get background or mute video failed"
ErrUserAudio == "user audio file missing"
ErrMix == "merge audio failed"
ErrRemux == "merge final video failed"

CompositeStart == [pc |-> "start", deleted_count |-> 0,
                   pending_tasks |-> <<>>, task |-> NoTask,
                   mode |-> NULL, exc |-> NULL, output |-> NULL,
                   bg_cache |-> FALSE, mute_cache |-> FALSE, cache_exc |-> NULL]

\* what the composite worker's steps leave alone besides the vocal side
CompositeFrame(changed) ==
    /\ UNCHANGED vocalSide
    /\ UNCHANGED <<engine, digest, lifecycle, rc, gt, rw, udSeq, enqueued, budget>>
    /\ IF "ud" \in changed THEN TRUE ELSE UNCHANGED ud
    /\ IF "mc" \in changed THEN TRUE ELSE UNCHANGED mc
    /\ IF "files" \in changed THEN TRUE ELSE UNCHANGED files
    /\ IF "dirs" \in changed THEN TRUE ELSE UNCHANGED dirs
    /\ IF "running" \in changed THEN TRUE ELSE UNCHANGED running
    /\ IF "result" \in changed THEN TRUE ELSE result' = <<>>
    /\ response' = <<>>

\* the purge at the start of composite_video_worker
CompositeWorkerStartup ==
    /\ cw.pc = "start"
    /\ running = "none"
    /\ running' = "composite"
    /\ ud' = cleanup_failed_user_dubbings
    /\ cw' = [cw EXCEPT !.pc = "poll",
                        !.deleted_count = Cardinality(ud) - Cardinality(ud')]
    /\ CompositeFrame({"ud", "running"})

CompositePoll ==
    /\ \/ cw.pc = "poll" /\ running = "composite"
       \/ cw.pc \in {"sleep", "backoff"} /\ running = "none"
    /\ running' = "composite"
    /\ cw' = [cw EXCEPT !.pc = "iter", !.deleted_count = 0,
                        !.pending_tasks = get_pending_user_dubbings]
    /\ CompositeFrame({"running"})

CompositeSleep ==
    /\ cw.pc = "iter"
    /\ cw.pending_tasks = <<>>
    /\ cw' = [cw EXCEPT !.pc = "sleep"]
    /\ running' = "none"
    /\ CompositeFrame({"running"})

\* a dispatch that ignores the mode of the task
TaskMode_Audio(task) == "audio"

\* mode = getattr(task, 'mode', None) or 'audio': a row has no mode attribute
TaskMode(task) ==
    IF "mode" \in DOMAIN task /\ task.mode \notin {NULL, ""}
    THEN task.mode ELSE "audio"

\* process_composite_video_task(task) for the next task of the snapshot:
\* update_user_dubbing(db, task.id, status="processing")
CompositeClaim ==
    /\ cw.pc = "iter"
    /\ cw.pending_tasks # <<>>
    /\ LET task == Head(cw.pending_tasks) IN
         /\ ud' = update_user_dubbing(task.id, [status |-> ClaimStatus])
         /\ cw' = [CompositeStart EXCEPT !.pc = "mkdtemp", !.task = <<task>>,
                                         !.pending_tasks = Tail(cw.pending_tasks),
                                         !.mode = TaskMode(task)]
    /\ CompositeFrame({"ud"})

\* work_dir = tempfile.mkdtemp(prefix="composite_final_...")
CompositeMkdtemp ==
    /\ cw.pc = "mkdtemp"
    /\ dirs' = dirs \cup {WorkDir("composite_final", cw.task[1])}
    /\ cw' = [cw EXCEPT !.pc = IF cw.mode = "video" THEN "v_lookup" ELSE "lookup"]
    /\ CompositeFrame({"dirs"})

BgCacheKey(video_url) == get_url_hash(video_url) \o ":background"
MuteCacheKey(video_url) == get_url_hash(video_url) \o ":mute-video"
BgFilePath(video_url) ==
    "/media_cache/background/" \o get_url_hash(video_url) \o "_background.wav"
MuteFilePath(video_url) ==
    "/media_cache/mute_video/" \o get_url_hash(video_url) \o "_mute" \o VideoExt(video_url)

\* a cache check that would be satisfied by the background track alone
CacheHit_BackgroundOnly(video_url) ==
    LET bg_cache == get_media_cache(BgCacheKey(video_url))
    IN bg_cache # <<>> /\ bg_cache[1].file_path \in files

\* a cache check that never finds anything
CacheHit_Never(video_url) == FALSE

\* the cache check of get_or_create_background_and_mute_video: both rows and
\* both files
CacheHit(video_url) ==
    LET bg_cache == get_media_cache(BgCacheKey(video_url))
        mute_cache == get_media_cache(MuteCacheKey(video_url))
    IN /\ bg_cache # <<>>
       /\ mute_cache # <<>>
       /\ bg_cache[1].file_path \in files
       /\ mute_cache[1].file_path \in files

\* get_or_create_background_and_mute_video up to its return on a hit or, on
\* a miss, its tempfile.mkdtemp(prefix="composite_...") and the awaited download
CompositeLookup ==
    /\ cw.pc = "lookup"
    /\ LET video_url == cw.task[1].original_video_url IN
         IF CacheHit(video_url)
         THEN /\ cw' = [cw EXCEPT !.pc = "useraudio"]
              /\ CompositeFrame({})
         ELSE /\ cw' = [cw EXCEPT !.pc = "download",
                          !.bg_cache = get_media_cache(BgCacheKey(video_url)) # <<>>,
                          !.mute_cache = get_media_cache(MuteCacheKey(video_url)) # <<>>]
              /\ dirs' = dirs \cup {WorkDir("composite", cw.task[1])}
              /\ running' = "none"
              /\ CompositeFrame({"dirs", "running"})

\* str(e) of the other exceptions raised while the cache is built
ErrMute == "create mute video failed"
ErrUnique == "UNIQUE constraint failed: media_cache.cache_key"

\* a step inside the try block of get_or_create_background_and_mute_video:
\* cache_exc is the exception its except clause will log
CacheStep(pc, ok, next, err) ==
    /\ cw.pc = pc
    /\ cw' = IF ok THEN [cw EXCEPT !.pc = next]
                   ELSE [cw EXCEPT !.pc = "cache_rmtree", !.cache_exc = err]

CompositeDownload(ok) ==
    /\ running = "none"
    /\ running' = "composite"
    /\ CacheStep("download", ok, "extract", ErrDownload)
    /\ CompositeFrame({"running"})

CompositeExtract(ok) ==
    /\ CacheStep("extract", ok, "separate", ErrExtract)
    /\ CompositeFrame({})

CompositeSeparate(ok) ==
    /\ CacheStep("separate", ok, "store_background", ErrSeparate)
    /\ CompositeFrame({})

CompositeSeparateRun(outcome) ==
    CompositeSeparate(remove_vocals_with_demucs(outcome) # NULL)

\* a store step that would insert its row without having copied the file
CompositeStoreBackground_RowOnly ==
    /\ cw.pc = "store_background"
    /\ LET video_url == cw.task[1].original_video_url IN
         IF cw.bg_cache
         THEN /\ UNCHANGED <<mc, files>>
              /\ cw' = [cw EXCEPT !.pc = "mute_video"]
         ELSE /\ mc' = create_media_cache(BgCacheKey(video_url), "background",
                                          BgFilePath(video_url), video_url)
              /\ UNCHANGED files
              /\ cw' = [cw EXCEPT !.pc = "mute_video"]
    /\ CompositeFrame({"files", "mc"})

\* a store step that would insert its row whatever the lookup found
CompositeStoreBackground_Inserts ==
    /\ cw.pc = "store_background"
    /\ LET video_url == cw.task[1].original_video_url IN
         /\ files' = files \cup {BgFilePath(video_url)}
         /\ mc' = create_media_cache(BgCacheKey(video_url), "background",
                                     BgFilePath(video_url), video_url)
         /\ cw' = [cw EXCEPT !.pc = "mute_video"]
    /\ CompositeFrame({"files", "mc"})

\* shutil.copy(no_vocals_path, bg_output_path) and, if the lookup found no
\* row, create_media_cache(...)
CompositeStoreBackground ==
    /\ cw.pc = "store_background"
    /\ LET video_url == cw.task[1].original_video_url IN
         /\ files' = files \cup {BgFilePath(video_url)}
         /\ IF cw.bg_cache
            THEN /\ UNCHANGED mc
                 /\ cw' = [cw EXCEPT !.pc = "mute_video"]
            ELSE IF CacheInsertAllowed(BgCacheKey(video_url))
            THEN /\ mc' = create_media_cache(BgCacheKey(video_url), "background",
                                             BgFilePath(video_url), video_url)
                 /\ cw' = [cw EXCEPT !.pc = "mute_video"]
            ELSE /\ UNCHANGED mc
                 /\ cw' = [cw EXCEPT !.pc = "cache_rmtree", !.cache_exc = ErrUnique]
    /\ CompositeFrame({"files", "mc"})

\* create_mute_video(downloaded_video, mute_output_path) and, if the lookup
\* found no row, create_media_cache(...)
CompositeMuteVideo(ok) ==
    /\ cw.pc = "mute_video"
    /\ LET video_url == cw.task[1].original_video_url IN
         IF ~ok
         THEN /\ cw' = [cw EXCEPT !.pc = "cache_rmtree", !.cache_exc = ErrMute]
              /\ UNCHANGED <<files, mc>>
         ELSE /\ files' = files \cup {MuteFilePath(video_url)}
              /\ IF cw.mute_cache
                 THEN /\ UNCHANGED mc
                      /\ cw' = [cw EXCEPT !.pc = "cache_rmtree"]
                 ELSE IF CacheInsertAllowed(MuteCacheKey(video_url))
                 THEN /\ mc' = create_media_cache(MuteCacheKey(video_url), "mute-video",
                                                  MuteFilePath(video_url), video_url)
                      /\ cw' = [cw EXCEPT !.pc = "cache_rmtree"]
                 ELSE /\ UNCHANGED mc
                      /\ cw' = [cw EXCEPT !.pc = "cache_rmtree", !.cache_exc = ErrUnique]
    /\ CompositeFrame({"files", "mc"})

\* the finally of get_or_create_background_and_mute_video; its except clause
\* returns (None, None), on which process_audio_dubbing_task raises
CompositeCacheRmtree ==
    /\ cw.pc = "cache_rmtree"
    /\ dirs' = Rmtree(WorkDir("composite", cw.task[1]))
    /\ cw' = IF cw.cache_exc # NULL
             THEN [cw EXCEPT !.pc = "rmtree", !.exc = ErrCache]
             ELSE [cw EXCEPT !.pc = "useraudio"]
    /\ CompositeFrame({"dirs"})

\* a step of process_audio_dubbing_task after the cache was obtained
AudioStep(pc, ok, next, err) ==
    /\ cw.pc = pc
    /\ cw' = IF ok THEN [cw EXCEPT !.pc = next]
                   ELSE [cw EXCEPT !.pc = "rmtree", !.exc = err]
    /\ CompositeFrame({})

\* if not os.path.exists(user_audio_path): raise
CompositeUserAudio ==
    AudioStep("useraudio", cw.task[1].user_audio_path \in files, "mix", ErrUserAudio)

CompositeMix(ok) == AudioStep("mix", ok, "remux", ErrMix)

CompositeRemux(ok) == AudioStep("remux", ok, "complete", ErrRemux)

\* ---------------------------------------- process_video_dubbing_task
ErrDownloadOriginal == "download original video failed"
ErrNeedsUserVideo == "video dubbing mode needs a user video"
ErrUserVideo == "user video file does not exist"
ErrStack == "video stacking failed"

\* a video procedure that would build the cache when the muted copy is missing
VideoLookup_Builds ==
    /\ cw.pc = "v_lookup"
    /\ IF MuteFilePath(cw.task[1].original_video_url) \in files
       THEN /\ cw' = [cw EXCEPT !.pc = "v_uservideo"]
            /\ CompositeFrame({})
       ELSE /\ cw' = [cw EXCEPT !.pc = "download"]
            /\ dirs' = dirs \cup {WorkDir("composite", cw.task[1])}
            /\ running' = "none"
            /\ CompositeFrame({"dirs", "running"})

\* cached_mute_path = .../mute_video/{url_hash}_mute{video_ext}
\* if os.path.exists(cached_mute_path): the muted copy is used;
\* else the download of the source is awaited
VideoLookup ==
    /\ cw.pc = "v_lookup"
    /\ IF MuteFilePath(cw.task[1].original_video_url) \in files
       THEN /\ cw' = [cw EXCEPT !.pc = "v_uservideo"]
            /\ CompositeFrame({})
       ELSE /\ cw' = [cw EXCEPT !.pc = "v_download"]
            /\ running' = "none"
            /\ CompositeFrame({"running"})

VideoDownload(ok) ==
    /\ running = "none"
    /\ running' = "composite"
    /\ cw.pc = "v_download"
    /\ cw' = IF ok THEN [cw EXCEPT !.pc = "v_uservideo"]
                   ELSE [cw EXCEPT !.pc = "rmtree", !.exc = ErrDownloadOriginal]
    /\ CompositeFrame({"running"})

\* user_video_path_attr = getattr(task, 'user_video_path', None) and the
\* os.path.exists check of the file
VideoUserVideo ==
    /\ cw.pc = "v_uservideo"
    /\ LET task == cw.task[1]
           attr == IF "user_video_path" \in DOMAIN task
                     THEN task.user_video_path ELSE NULL
       IN cw' = IF attr = NULL
                  THEN [cw EXCEPT !.pc = "rmtree", !.exc = ErrNeedsUserVideo]
                  ELSE IF attr \notin files
                  THEN [cw EXCEPT !.pc = "rmtree", !.exc = ErrUserVideo]
                  ELSE [cw EXCEPT !.pc = "v_stack"]
    /\ CompositeFrame({})

VideoStack(ok) == AudioStep("v_stack", ok, "complete", ErrStack)

Digit(n) == CASE n = 0 -> "0" [] n = 1 -> "1" [] n = 2 -> "2" [] n = 3 -> "3"
              [] n = 4 -> "4" [] n = 5 -> "5" [] OTHER -> "n"

\* f"/user_dubbings/{task.user_id}_{task.id}_composite{video_ext}"
CompositeOutputPath(task) ==
    "/user_dubbings/" \o task.user_id \o "_" \o Digit(task.id) \o "_composite"
        \o VideoExt(task.original_video_url)

\* a completion that records no path
CompositeCompleted_NoPath(task) == [status |-> "completed"]

\* f"/user_dubbings/{task.user_id}_{task.id}_video_dubbing.mp4"
VideoOutputPath(task) ==
    "/user_dubbings/" \o task.user_id \o "_" \o Digit(task.id) \o "_video_dubbing.mp4"

\* output_path as returned by the procedure of the task's mode
OutputPath(task) ==
    IF TaskMode(task) = "video" THEN VideoOutputPath(task)
                                ELSE CompositeOutputPath(task)

CompositeCompleted(task) ==
    [status |-> "completed", composite_video_path |-> OutputPath(task)]

CompositeFailed(error_msg) == [status |-> "failed", error_message |-> error_msg]

CompositeComplete ==
    /\ cw.pc = "complete"
    /\ LET task == cw.task[1] IN
         /\ ud' = update_user_dubbing(task.id, CompositeCompleted(task))
         /\ cw' = [cw EXCEPT !.pc = "rmtree", !.output = OutputPath(task)]
    /\ CompositeFrame({"ud"})

CompositeRmtree ==
    /\ cw.pc = "rmtree"
    /\ dirs' = Rmtree(WorkDir("composite_final", cw.task[1]))
    /\ IF cw.exc = NULL
       THEN /\ result' = <<[job |-> cw.task[1].created_at, kind |-> "composite",
                            success |-> TRUE, output_path |-> cw.output,
                            error |-> NULL]>>
            /\ cw' = [CompositeStart EXCEPT !.pc = "iter",
                                            !.pending_tasks = cw.pending_tasks]
       ELSE /\ result' = <<>>
            /\ cw' = [cw EXCEPT !.pc = "except"]
    /\ CompositeFrame({"dirs", "result"})

CompositeExcept ==
    /\ cw.pc = "except"
    /\ ud' = update_user_dubbing(cw.task[1].id, CompositeFailed(cw.exc))
    /\ result' = <<[job |-> cw.task[1].created_at, kind |-> "composite",
                    success |-> FALSE, output_path |-> NULL, error |-> cw.exc]>>
    /\ cw' = [CompositeStart EXCEPT !.pc = "iter",
                                    !.pending_tasks = cw.pending_tasks]
    /\ CompositeFrame({"ud", "result"})

\* ------------------------------ the composite worker when a call raises
CompositeClaimRaises ==
    /\ cw.pc = "iter"
    /\ cw.pending_tasks # <<>>
    /\ LET task == Head(cw.pending_tasks) IN
         cw' = [CompositeStart EXCEPT !.pc = "except", !.task = <<task>>,
                                      !.pending_tasks = Tail(cw.pending_tasks),
                                      !.mode = TaskMode(task),
                                      !.exc = ErrStore]
    /\ CompositeFrame({})

CompositeMkdtempRaises ==
    /\ cw.pc = "mkdtemp"
    /\ cw' = [cw EXCEPT !.pc = "except", !.exc = ErrMkdtemp]
    /\ CompositeFrame({})

CompositeCompleteRaises ==
    /\ cw.pc = "complete"
    /\ cw' = [cw EXCEPT !.pc = "rmtree", !.exc = ErrStore]
    /\ CompositeFrame({})

CompositeBackoff == [CompositeStart EXCEPT !.pc = "backoff"]

CompositeExceptRaises ==
    /\ cw.pc = "except"
    /\ cw' = CompositeBackoff
    /\ running' = "none"
    /\ CompositeFrame({"running"})

CompositePollRaises ==
    /\ \/ cw.pc = "poll" /\ running = "composite"
       \/ cw.pc \in {"sleep", "backoff"} /\ running = "none"
    /\ cw' = CompositeBackoff
    /\ running' = "none"
    /\ CompositeFrame({"running"})

\* -------------------------------------------------- the process
\* The process is killed and started again: its threads and coroutines are
\* gone, the tables and the files stay, start_worker creates the worker tasks.
\* The working directories of the killed executors stay on disk, but no
\* executor of the new process refers to them: they are no longer tracked.
Restart ==
    /\ reqs' = [t \in Threads |-> Idle]
    /\ vw' = WorkerStart
    /\ cw' = CompositeStart
    /\ dirs' = {}
    /\ running' = "none"
    /\ Quiet
    /\ UNCHANGED <<engine, digest, lifecycle, rc, gt, rw, vr, vrSeq, ud, udSeq, mc, files, enqueued, budget>>

\* the working directory of the job an executor is inside, if it made one
LiveDirs(prefixes, task) ==
    IF task = NoTask THEN {}
    ELSE {d \in dirs : d.prefix \in prefixes /\ d.job = task[1].created_at}

\* a cancellation that the executor's except Exception clause would catch
StopWorker_Caught ==
    /\ running = "none"
    /\ vw.pc # "done" \/ cw.pc # "done"
    /\ vw' = [WorkerStart EXCEPT !.pc = "done"]
    /\ cw' = [CompositeStart EXCEPT !.pc = "done"]
    /\ vr' = IF vw.task = NoTask THEN vr
             ELSE update_vocal_removal_task(vw.task[1].id, VocalFailed("CancelledError"))
    /\ dirs' = (dirs \ LiveDirs({"vocal_removal"}, vw.task))
                  \ LiveDirs({"composite", "composite_final"}, cw.task)
    /\ Quiet
    /\ UNCHANGED <<engine, digest, lifecycle, rc, gt, rw, vrSeq, reqs, ud, udSeq, mc, files, running,
                   enqueued, budget>>

\* a cancellation after which the finally clauses would not have run
StopWorker_KeepsDirs ==
    /\ running = "none"
    /\ vw.pc # "done" \/ cw.pc # "done"
    /\ vw' = [WorkerStart EXCEPT !.pc = "done"]
    /\ cw' = [CompositeStart EXCEPT !.pc = "done"]
    /\ Quiet
    /\ UNCHANGED <<engine, digest, lifecycle, rc, gt, rw, vr, vrSeq, reqs, ud, udSeq, mc, files, dirs,
                   running, enqueued, budget>>

\* stop_worker(): both worker tasks are cancelled.  It runs on the event
\* loop, so each loop is suspended at an await (or has not run yet); the
\* CancelledError passes the executors' except Exception clauses, runs their
\* finally clauses and ends the loop at its except asyncio.CancelledError
StopWorker ==
    /\ running = "none"
    /\ vw.pc # "done" \/ cw.pc # "done"
    /\ vw' = [WorkerStart EXCEPT !.pc = "done"]
    /\ cw' = [CompositeStart EXCEPT !.pc = "done"]
    /\ dirs' = (dirs \ LiveDirs({"vocal_removal"}, vw.task))
                  \ LiveDirs({"composite", "composite_final"}, cw.task)
    /\ Quiet
    /\ UNCHANGED <<engine, digest, lifecycle, rc, gt, rw, vr, vrSeq, reqs, ud, udSeq, mc, files, running,
                   enqueued, budget>>

\* start_worker(): a task is created for a kind whose task is done(); a
\* task that is not done, cancelled or not, is kept
StartWorkerCall ==
    /\ running = "none"
    /\ vw' = IF vw.pc = "done" THEN WorkerStart ELSE vw
    /\ cw' = IF cw.pc = "done" THEN CompositeStart ELSE cw
    /\ lifecycle' = [lifecycle EXCEPT !.last_call = "start_worker"]
    /\ Quiet
    /\ UNCHANGED <<engine, digest, rc, gt, rw, vr, vrSeq, reqs, ud, udSeq, mc, files, dirs,
                   running, enqueued, budget>>

\* stop_worker(): task.cancel() for every task that is not done(); the
\* CancelledError is raised when the task is resumed
StopWorkerCall ==
    /\ running = "none"
    /\ lifecycle' = [must_cancel |-> lifecycle.must_cancel
                                       \cup (IF vw.pc = "done" THEN {} ELSE {"vocal"})
                                       \cup (IF cw.pc = "done" THEN {} ELSE {"composite"}),
                     last_call |-> "stop_worker"]
    /\ Quiet
    /\ UNCHANGED <<engine, digest, rc, gt, rw, vr, vrSeq, reqs, vw, ud, udSeq, mc, files, cw,
                   dirs, running, enqueued, budget>>

\* the cancelled vocal_removal_worker task is resumed: the CancelledError
\* runs the finally clauses and ends the task
VocalCancelDelivered ==
    /\ "vocal" \in lifecycle.must_cancel
    /\ running = "none"
    /\ vw' = [WorkerStart EXCEPT !.pc = "done"]
    /\ dirs' = dirs \ LiveDirs({"vocal_removal"}, vw.task)
    /\ lifecycle' = [lifecycle EXCEPT !.must_cancel = @ \ {"vocal"}]
    /\ Quiet
    /\ UNCHANGED <<engine, digest, rc, gt, rw, vr, vrSeq, reqs, ud, udSeq, mc, files, cw,
                   running, enqueued, budget>>

\* the cancelled composite_video_worker task is resumed
CompositeCancelDelivered ==
    /\ "composite" \in lifecycle.must_cancel
    /\ running = "none"
    /\ cw' = [CompositeStart EXCEPT !.pc = "done"]
    /\ dirs' = dirs \ LiveDirs({"composite", "composite_final"}, cw.task)
    /\ lifecycle' = [lifecycle EXCEPT !.must_cancel = @ \ {"composite"}]
    /\ Quiet
    /\ UNCHANGED <<engine, digest, rc, gt, rw, vr, vrSeq, reqs, vw, ud, udSeq, mc, files,
                   running, enqueued, budget>>

\* a file of the media cache or a user recording is deleted by something
\* other than the server, between two jobs of the composite worker
RemoveFile(file_path) ==
    /\ file_path \in files
    /\ cw.task = NoTask
    /\ files' = files \ {file_path}
    /\ Quiet
    /\ UNCHANGED <<engine, digest, lifecycle, rc, gt, rw, vr, vrSeq, reqs, vw, ud, udSeq, mc, cw, dirs,
                   running, enqueued, budget>>

\* ------------------------------------------ generate_recommendations_task
\* the seasons of the catalogue, their episodes and the clips of an episode
Seasons == {"s1", "s2"}
Episodes(season) == IF season = "s1" THEN {"e1", "e2"} ELSE {"e3"}
ClipsOf(episode) == {episode \o "/clip.mp4"}

Min(a, b) == IF a < b THEN a ELSE b

\* no call of generate_recommendations_task is in progress; round counts the
\* calls made
GenIdle == [pc |-> "idle", count |-> 0, seasons |-> {}, all_clips |-> {},
            selected_clips |-> <<>>, i |-> 0, round |-> 0]

\* what the steps of the task leave alone
GenFrame ==
    /\ response' = <<>>
    /\ UNCHANGED vocalSide
    /\ UNCHANGED compSide
    /\ UNCHANGED <<engine, digest, lifecycle, rw, dirs, running, enqueued, budget>>

\* a task that would clear the table before it has collected anything
GenCall_ClearsFirst(count) ==
    /\ gt.pc = "idle"
    /\ gt.round < MaxRounds
    /\ \E seasons \in SUBSET Seasons :
          /\ gt' = [gt EXCEPT !.pc = "fetch", !.count = count, !.seasons = seasons,
                              !.all_clips = {}, !.selected_clips = <<>>, !.i = 0,
                              !.round = @ + 1]
          /\ result' = <<>>
    /\ rc' = {}
    /\ GenFrame

\* the call and db.query(Season).filter(Season.is_active == True).all():
\* without an active season the task returns at once
GenCall(count) ==
    /\ gt.pc = "idle"
    /\ gt.round < MaxRounds
    /\ \E seasons \in SUBSET Seasons :
          IF seasons = {}
          THEN /\ gt' = [GenIdle EXCEPT !.round = gt.round + 1]
               /\ result' = <<[success |-> FALSE, message |-> "no active season"]>>
          ELSE /\ gt' = [gt EXCEPT !.pc = "fetch", !.count = count, !.seasons = seasons,
                                   !.all_clips = {}, !.selected_clips = <<>>, !.i = 0,
                                   !.round = @ + 1]
               /\ result' = <<>>
    /\ UNCHANGED rc
    /\ GenFrame

\* one turn of 'for season in seasons': all.json and the episode files are
\* fetched; fetched is the set of episodes whose requests succeeded (none
\* when the season has no all_json_url or its all.json could not be fetched)
GenFetch(season, fetched) ==
    /\ gt.pc = "fetch"
    /\ season \in gt.seasons
    /\ fetched \subseteq Episodes(season)
    /\ gt' = [gt EXCEPT !.seasons = @ \ {season},
                        !.all_clips = @ \cup UNION {ClipsOf(e) : e \in fetched}]
    /\ result' = <<>>
    /\ UNCHANGED rc
    /\ GenFrame

\* the orders in which random.sample can return k of the clips
Samples(clips, k) ==
    {q \in [1..k -> clips] : \A a, b \in 1..k : a # b => q[a] # q[b]}

\* after the loop: return when nothing was collected, else random.sample and
\* clear_recommended_clips(db)
GenClear ==
    /\ gt.pc = "fetch"
    /\ gt.seasons = {}
    /\ IF gt.all_clips = {}
       THEN /\ gt' = [GenIdle EXCEPT !.round = gt.round]
            /\ result' = <<[success |-> FALSE, message |-> "no clip found"]>>
            /\ UNCHANGED rc
       ELSE /\ \E q \in Samples(gt.all_clips, Min(gt.count, Cardinality(gt.all_clips))) :
                  gt' = [gt EXCEPT !.pc = "add", !.selected_clips = q, !.i = 0]
            /\ result' = <<>>
            /\ rc' = {}
    /\ GenFrame

\* one turn of 'for i, clip_data in enumerate(selected_clips)':
\* clip_data["sort_order"] = i; add_recommended_clip(db, clip_data)
GenAdd ==
    /\ gt.pc = "add"
    /\ gt.i < Len(gt.selected_clips)
    /\ rc' = rc \cup {[video_url |-> gt.selected_clips[gt.i + 1], sort_order |-> gt.i]}
    /\ gt' = [gt EXCEPT !.i = @ + 1]
    /\ result' = <<>>
    /\ GenFrame

\* the return after the loop
GenReturn ==
    /\ gt.pc = "add"
    /\ gt.i = Len(gt.selected_clips)
    /\ gt' = [GenIdle EXCEPT !.round = gt.round]
    /\ result' = <<[success |-> TRUE, count |-> Len(gt.selected_clips),
                    total_available |-> Cardinality(gt.all_clips)]>>
    /\ UNCHANGED rc
    /\ GenFrame

\* the tables empty, no file, the worker tasks created by start_worker
Start(accepted) ==
    /\ engine \in {"sqlite", "mysql"}
    /\ digest = NoDigests
    /\ lifecycle = WorkersStarted
    /\ rc = {}
    /\ gt = GenIdle
    /\ vr = {}
    /\ vrSeq = 0
    /\ reqs = [t \in Threads |-> Idle]
    /\ vw = WorkerStart
    /\ rw = RunWorkerAbsent
    /\ ud = {}
    /\ udSeq = 0
    /\ mc = {}
    /\ files = {}
    /\ cw = CompositeStart
    /\ dirs = {}
    /\ running = "none"
    /\ response = <<>>
    /\ result = <<>>
    /\ enqueued = 0
    /\ budget = accepted

Init == Start(MaxEnqueue)

InitVocal == Start(MaxRequests)

InitComposite == Start(MaxSubmissions)

\* SQLite, and enough submissions for the ids of deleted rows to be taken
\* again while the worker still holds them in its snapshot
InitReuse ==
    /\ Start(MaxReuseJobs)
    /\ engine = "sqlite"

\* the steps of the vocal-removal side inside one run of the process
VocalSteps ==
    \/ \E t \in Threads, u \in Urls : RequestVocalRemoval(t, u)
    \/ \E t \in Threads : RequestDelete(t)
    \/ \E t \in Threads : RequestCreate(t)
    \/ VocalWorkerStartup
    \/ VocalPoll
    \/ VocalSleep
    \/ VocalClaim
    \/ VocalMkdtemp
    \/ \E ok \in BOOLEAN : VocalDownload(ok)
    \/ \E ok \in BOOLEAN : VocalExtract(ok)
    \/ \E o \in DemucsOutcomes : VocalSeparateRun(o)
    \/ \E ok \in BOOLEAN : VocalMerge(ok)
    \/ VocalComplete
    \/ VocalRmtree
    \/ VocalExcept

NextVocal == VocalSteps \/ Restart

\* the steps of the composite worker inside one run of the process
CompositeSteps ==
    \/ \E u \in Urls : CreateCompositeVideo(User, u)
    \/ CompositeWorkerStartup
    \/ CompositePoll
    \/ CompositeSleep
    \/ CompositeClaim
    \/ CompositeMkdtemp
    \/ CompositeLookup
    \/ \E ok \in BOOLEAN : CompositeDownload(ok)
    \/ \E ok \in BOOLEAN : CompositeExtract(ok)
    \/ \E o \in DemucsOutcomes : CompositeSeparateRun(o)
    \/ CompositeStoreBackground
    \/ \E ok \in BOOLEAN : CompositeMuteVideo(ok)
    \/ CompositeCacheRmtree
    \/ CompositeUserAudio
    \/ \E ok \in BOOLEAN : CompositeMix(ok)
    \/ \E ok \in BOOLEAN : CompositeRemux(ok)
    \/ CompositeComplete
    \/ CompositeRmtree
    \/ CompositeExcept

NextComposite ==
    \/ CompositeSteps
    \/ \E r \in ud : DeleteUserDubbingRecord(User, r.id)
    \/ Restart

Next == NextVocal \/ NextComposite

\* submissions for one URL, deletions, and a worker whose tools succeed
NextReuse ==
    \/ CreateCompositeVideo(User, UrlA)
    \/ \E r \in ud : DeleteUserDubbingRecord(User, r.id)
    \/ CompositeWorkerStartup
    \/ CompositePoll
    \/ CompositeSleep
    \/ CompositeClaim
    \/ CompositeMkdtemp
    \/ CompositeLookup
    \/ CompositeDownload(TRUE)
    \/ CompositeExtract(TRUE)
    \/ CompositeSeparateRun("found")
    \/ CompositeStoreBackground
    \/ CompositeMuteVideo(TRUE)
    \/ CompositeCacheRmtree
    \/ CompositeUserAudio
    \/ CompositeMix(TRUE)
    \/ CompositeRemux(TRUE)
    \/ CompositeComplete
    \/ CompositeRmtree

SpecReuse == InitReuse /\ [][NextReuse]_vars

\* submissions for the URLs of DigestUrls, whose digests are any values of
\* the digest's range
InitDigest ==
    /\ engine = "sqlite"
    /\ digest \in [DigestUrls -> DigestValues]
    /\ lifecycle = WorkersStarted
    /\ rc = {}
    /\ gt = GenIdle
    /\ vr = {}
    /\ vrSeq = 0
    /\ reqs = [t \in Threads |-> Idle]
    /\ vw = [WorkerStart EXCEPT !.pc = "done"]
    /\ rw = RunWorkerAbsent
    /\ ud = {}
    /\ udSeq = 0
    /\ mc = {}
    /\ files = {}
    /\ cw = CompositeStart
    /\ dirs = {}
    /\ running = "none"
    /\ response = <<>>
    /\ result = <<>>
    /\ enqueued = 0
    /\ budget = MaxDigestJobs

NextDigest ==
    \/ \E u \in DigestUrls : CreateCompositeVideo(User, u)
    \/ CompositeWorkerStartup
    \/ CompositePoll
    \/ CompositeSleep
    \/ CompositeClaim
    \/ CompositeMkdtemp
    \/ CompositeLookup
    \/ CompositeDownload(TRUE)
    \/ CompositeExtract(TRUE)
    \/ CompositeSeparateRun("found")
    \/ CompositeStoreBackground
    \/ CompositeMuteVideo(TRUE)
    \/ CompositeCacheRmtree
    \/ CompositeUserAudio
    \/ CompositeMix(TRUE)
    \/ CompositeRemux(TRUE)
    \/ CompositeComplete
    \/ CompositeRmtree

SpecDigest == InitDigest /\ [][NextDigest]_vars

\* the server with its vocal-removal loop and, in some behaviours, a
\* run_worker.py process started against the same store (the default one)
InitTwoWorkers ==
    /\ engine = "sqlite"
    /\ digest = NoDigests
    /\ lifecycle = WorkersStarted
    /\ rc = {}
    /\ gt = GenIdle
    /\ vr = {}
    /\ vrSeq = 0
    /\ reqs = [t \in Threads |-> Idle]
    /\ vw = WorkerStart
    /\ rw \in {RunWorkerStart, RunWorkerAbsent}
    /\ ud = {}
    /\ udSeq = 0
    /\ mc = {}
    /\ files = {}
    /\ cw = [CompositeStart EXCEPT !.pc = "done"]
    /\ dirs = {}
    /\ running = "none"
    /\ response = <<>>
    /\ result = <<>>
    /\ enqueued = 0
    /\ budget = MaxTwoWorkerRequests

RunWorkerSteps ==
    \/ RunWorkerStartup
    \/ RunWorkerPoll
    \/ RunWorkerSleep
    \/ RunWorkerClaim
    \/ RunWorkerMkdtemp
    \/ \E ok \in BOOLEAN : RunWorkerDownload(ok)
    \/ \E ok \in BOOLEAN : RunWorkerExtract(ok)
    \/ \E o \in DemucsOutcomes : RunWorkerSeparateRun(o)
    \/ \E ok \in BOOLEAN : RunWorkerMerge(ok)
    \/ RunWorkerComplete
    \/ RunWorkerRmtree
    \/ RunWorkerExcept

NextTwoWorkers == VocalSteps \/ RunWorkerSteps

SpecTwoWorkers == InitTwoWorkers /\ [][NextTwoWorkers]_vars

\* the whole process
Spec == Init /\ [][Next]_vars

\* the vocal-removal side alone: it shares no table, file or directory with
\* the composite-dubbing side, whose worker only delays it on the event loop
SpecVocal == InitVocal /\ [][NextVocal]_vars

\* the vocal-removal side with clients that poll the status of their URLs
InitStatus == Start(MaxPolledRequests)

NextStatus ==
    \/ VocalSteps
    \/ \E u \in Urls : GetVocalRemovalStatus(u)

SpecStatus == InitStatus /\ [][NextStatus]_vars

\* calls of generate_recommendations_task, one after the other, with any
\* count up to MaxCount, any set of active seasons and any fetch outcome
InitGen ==
    /\ Start(0)
    /\ engine = "sqlite"

NextGen ==
    \/ \E count \in 0..MaxCount : GenCall(count)
    \/ \E season \in Seasons : \E fetched \in SUBSET Episodes(season) :
          GenFetch(season, fetched)
    \/ GenClear
    \/ GenAdd
    \/ GenReturn

SpecGen == InitGen /\ [][NextGen]_vars

\* both pipelines for one URL, restarts, and clients that poll the two
\* status endpoints for every URL and every id
InitPolling == Start(MaxPolledJobs)

NextPolling ==
    \/ \E t \in Threads : RequestVocalRemoval(t, UrlA)
    \/ \E t \in Threads : RequestDelete(t)
    \/ \E t \in Threads : RequestCreate(t)
    \/ VocalWorkerStartup
    \/ VocalPoll
    \/ VocalSleep
    \/ VocalClaim
    \/ VocalMkdtemp
    \/ \E ok \in BOOLEAN : VocalDownload(ok)
    \/ VocalExtract(TRUE)
    \/ VocalSeparateRun("found")
    \/ VocalMerge(TRUE)
    \/ VocalComplete
    \/ VocalRmtree
    \/ VocalExcept
    \/ CreateCompositeVideo(User, UrlA)
    \/ \E r \in ud : DeleteUserDubbingRecord(User, r.id)
    \/ CompositeWorkerStartup
    \/ CompositePoll
    \/ CompositeSleep
    \/ CompositeClaim
    \/ CompositeMkdtemp
    \/ CompositeLookup
    \/ \E ok \in BOOLEAN : CompositeDownload(ok)
    \/ CompositeExtract(TRUE)
    \/ CompositeSeparateRun("found")
    \/ CompositeStoreBackground
    \/ CompositeMuteVideo(TRUE)
    \/ CompositeCacheRmtree
    \/ CompositeUserAudio
    \/ CompositeMix(TRUE)
    \/ CompositeRemux(TRUE)
    \/ CompositeComplete
    \/ CompositeRmtree
    \/ CompositeExcept
    \/ Restart
    \/ \E u \in Urls : GetVocalRemovalStatus(u)
    \/ \E id \in 1..(MaxPolledJobs + 1) : GetCompositeVideoStatus(id)

SpecPolling == InitPolling /\ [][NextPolling]_vars

\* the composite-dubbing side alone
SpecComposite == InitComposite /\ [][NextComposite]_vars

InitFaults == Start(MaxFaultyJobs)

\* the whole process when store calls and mkdtemp may raise and the worker
\* tasks may be cancelled
NextFaults ==
    \/ VocalSteps
    \/ CompositeSteps
    \/ VocalClaimRaises
    \/ VocalMkdtempRaises
    \/ VocalCompleteRaises
    \/ VocalExceptRaises
    \/ VocalPollRaises
    \/ CompositeClaimRaises
    \/ CompositeMkdtempRaises
    \/ CompositeCompleteRaises
    \/ CompositeExceptRaises
    \/ CompositePollRaises
    \/ StopWorker

SpecFaults == InitFaults /\ [][NextFaults]_vars

\* the process with calls of start_worker and stop_worker: a task whose
\* cancellation was requested takes no step but the delivery of the
\* CancelledError
InitTasks ==
    /\ Start(MaxTaskJobs)
    /\ engine = "sqlite"

NextTasks ==
    \/ StartWorkerCall
    \/ StopWorkerCall
    \/ VocalCancelDelivered
    \/ CompositeCancelDelivered
    \/ \E t \in Threads : RequestVocalRemoval(t, UrlA)
    \/ \E t \in Threads : RequestDelete(t)
    \/ \E t \in Threads : RequestCreate(t)
    \/ CreateCompositeVideo(User, UrlA)
    \/ /\ "vocal" \notin lifecycle.must_cancel
       /\ \/ VocalWorkerStartup
          \/ VocalPoll
          \/ VocalSleep
          \/ VocalClaim
          \/ VocalMkdtemp
          \/ \E ok \in BOOLEAN : VocalDownload(ok)
          \/ VocalExtract(TRUE)
          \/ VocalSeparateRun("found")
          \/ VocalMerge(TRUE)
          \/ VocalComplete
          \/ VocalRmtree
          \/ VocalExcept
    \/ /\ "composite" \notin lifecycle.must_cancel
       /\ \/ CompositeWorkerStartup
          \/ CompositePoll
          \/ CompositeSleep
          \/ CompositeClaim
          \/ CompositeMkdtemp
          \/ CompositeLookup
          \/ CompositeDownload(TRUE)
          \/ CompositeExtract(TRUE)
          \/ CompositeSeparateRun("found")
          \/ CompositeStoreBackground
          \/ CompositeMuteVideo(TRUE)
          \/ CompositeCacheRmtree
          \/ CompositeUserAudio
          \/ CompositeMix(TRUE)
          \/ CompositeRemux(TRUE)
          \/ CompositeComplete
          \/ CompositeRmtree

SpecTasks == InitTasks /\ [][NextTasks]_vars

\* the process while both loops keep running: store calls and mkdtemp may
\* raise, no worker task is cancelled and the process is not restarted
InitLive == Start(MaxLiveJobs)

NextLive ==
    \/ VocalSteps
    \/ CompositeSteps
    \/ VocalClaimRaises
    \/ VocalMkdtempRaises
    \/ VocalCompleteRaises
    \/ VocalExceptRaises
    \/ VocalPollRaises
    \/ CompositeClaimRaises
    \/ CompositeMkdtempRaises
    \/ CompositeCompleteRaises
    \/ CompositeExceptRaises
    \/ CompositePollRaises

\* the event loop runs every ready coroutine (its ready queue is first in,
\* first out), asyncio.sleep returns, every download and tool run ends with
\* one of its outcomes, and a store call that is made again and again succeeds
VocalFairness ==
    /\ SF_vars(VocalClaim)
    /\ SF_vars(VocalExcept)
    /\ SF_vars(\/ VocalWorkerStartup
               \/ VocalPoll
               \/ VocalSleep
               \/ VocalMkdtemp
               \/ \E ok \in BOOLEAN : VocalDownload(ok)
               \/ \E ok \in BOOLEAN : VocalExtract(ok)
               \/ \E o \in DemucsOutcomes : VocalSeparateRun(o)
               \/ \E ok \in BOOLEAN : VocalMerge(ok)
               \/ VocalComplete
               \/ VocalRmtree)

CompositeFairness ==
    /\ SF_vars(CompositeClaim)
    /\ SF_vars(CompositeExcept)
    /\ SF_vars(\/ CompositeWorkerStartup
               \/ CompositePoll
               \/ CompositeSleep
               \/ CompositeMkdtemp
               \/ CompositeLookup
               \/ \E ok \in BOOLEAN : CompositeDownload(ok)
               \/ \E ok \in BOOLEAN : CompositeExtract(ok)
               \/ \E o \in DemucsOutcomes : CompositeSeparateRun(o)
               \/ CompositeStoreBackground
               \/ \E ok \in BOOLEAN : CompositeMuteVideo(ok)
               \/ CompositeCacheRmtree
               \/ CompositeUserAudio
               \/ \E ok \in BOOLEAN : CompositeMix(ok)
               \/ \E ok \in BOOLEAN : CompositeRemux(ok)
               \/ CompositeComplete
               \/ CompositeRmtree)

SpecLive == InitLive /\ [][NextLive]_vars /\ VocalFairness /\ CompositeFairness

\* the composite-dubbing side when files are deleted out-of-band
NextFiles ==
    \/ CompositeSteps
    \/ \E f \in files : RemoveFile(f)

SpecFiles == InitComposite /\ [][NextFiles]_vars

\* a record that carries mode = "video" and the path of the user's video:
\* what process_composite_video_task reads with getattr, and no row that
\* create_composite_video inserts has
UserVideoPath == "/user_video/1_recording.mp4"

VideoTask(n, user_video_path) ==
    [created_at |-> n, id |-> n, user_id |-> User,
     original_video_url |-> UrlA, user_audio_path |-> NULL,
     status |-> "pending", composite_video_path |-> NULL,
     error_message |-> NULL, mode |-> "video",
     user_video_path |-> user_video_path]

\* the executor applied to records of both modes: the store starts with one
\* video-mode record, with or without the user's video and the muted copy
\* of its source on disk
InitModes ==
    /\ engine \in {"sqlite", "mysql"}
    /\ digest = NoDigests
    /\ lifecycle = WorkersStarted
    /\ rc = {}
    /\ gt = GenIdle
    /\ vr = {}
    /\ vrSeq = 0
    /\ reqs = [t \in Threads |-> Idle]
    /\ vw = [WorkerStart EXCEPT !.pc = "done"]
    /\ rw = RunWorkerAbsent
    /\ \E path \in {NULL, UserVideoPath}, mode \in {"video", "audio", NULL} :
          ud = {[VideoTask(1, path) EXCEPT !.mode = mode]}
    /\ udSeq = 1
    /\ mc = {}
    /\ files \in SUBSET {UserVideoPath, MuteFilePath(UrlA)}
    /\ cw = CompositeStart
    /\ dirs = {}
    /\ running = "none"
    /\ response = <<>>
    /\ result = <<>>
    /\ enqueued = 0
    /\ budget = MaxModeJobs

NextModes ==
    \/ CompositeSteps
    \/ VideoLookup
    \/ \E ok \in BOOLEAN : VideoDownload(ok)
    \/ VideoUserVideo
    \/ \E ok \in BOOLEAN : VideoStack(ok)

SpecModes == InitModes /\ [][NextModes]_vars

\* ===================================================== the claims

LiveStatuses == {"pending", "processing", "completed"}

\* C1: a request_vocal_removal call for a URL whose record is pending,
\* processing or completed creates no record, changes no field of any record
\* and answers with that record's status, output path and error; the store
\* still holds exactly one record for the URL.
C1_EnqueueLiveIsNoOp ==
    [][\A t \in Threads, u \in Urls :
          \A r \in vr :
             (r.video_url = u /\ r.status \in LiveStatuses
                /\ RequestVocalRemoval(t, u))
             => /\ vr' = vr
                /\ reqs' = reqs
                /\ response' = <<[code |-> 200, status |-> r.status,
                                  video_url |-> u,
                                  output_video_path |-> r.output_video_path,
                                  error_message |-> r.error_message]>>
                /\ Cardinality({q \in vr' : q.video_url = u}) = 1]_vars

\* a second call for a URL has just been answered with the completed record
C1_Witness ==
    /\ enqueued >= 2
    /\ response = <<[code |-> 200, status |-> "completed", video_url |-> UrlA,
                     output_video_path |-> VocalOutputPath(UrlA),
                     error_message |-> NULL]>>
    /\ \E r \in vr : r.video_url = UrlA /\ r.status = "completed"

\* C2: the vocal-removal store never holds two records for one source URL.
C2_OneRecordPerUrl ==
    \A r, q \in vr : r.video_url = q.video_url => r = q

\* two requests for one URL raced: the INSERT of the second was refused
C2_Witness ==
    /\ response # <<>>
    /\ response[1].code = 500
    /\ \E r \in vr : r.video_url = response[1].video_url

\* C3: for both kinds, a completed record has an output path, a failed
\* record has an error message, and no record has both.
C3_TerminalFields ==
    /\ \A r \in vr :
         /\ r.status = "completed" => r.output_video_path # NULL
         /\ r.status = "failed" => r.error_message # NULL
         /\ ~(r.output_video_path # NULL /\ r.error_message # NULL)
    /\ \A r \in ud :
         /\ r.status = "completed" => r.composite_video_path # NULL
         /\ r.status = "failed" => r.error_message # NULL
         /\ ~(r.composite_video_path # NULL /\ r.error_message # NULL)

\* a vocal-removal record has failed and a composite record has completed
C3_Witness ==
    /\ \E r \in vr : r.status = "failed" /\ r.error_message = ErrSeparate
    /\ \E r \in ud : r.status = "completed"
                       /\ r.composite_video_path = CompositeOutputPath(r)

\* C4: a composite-dubbing record has an output path exactly when it is
\* completed.
C4_OutputIffCompleted ==
    \A r \in ud : (r.composite_video_path # NULL) <=> (r.status = "completed")

\* one record completed, another one failed
C4_Witness ==
    /\ \E r \in ud : r.status = "completed" /\ r.composite_video_path # NULL
    /\ \E r \in ud : r.status = "failed" /\ r.composite_video_path = NULL

\* the status changes of the rows of a table in one step: a row is the same
\* record in both states when it was inserted by the same INSERT
StatusChanges(rows, rows2) ==
    {<<r.status, q.status>> : <<r, q>> \in
        {p \in rows \X rows2 : p[1].created_at = p[2].created_at
                                 /\ p[1].status # p[2].status}}

\* the rows a step inserted
Inserted(rows, rows2) ==
    {q \in rows2 : \A r \in rows : r.created_at # q.created_at}

Lifecycle == {<<"pending", "processing">>, <<"processing", "completed">>,
              <<"processing", "failed">>}

\* C5: a record's status only goes pending -> processing -> completed or
\* pending -> processing -> failed, a completed or failed record never
\* changes status, and every new record starts pending.
C5_Lifecycle ==
    [][/\ StatusChanges(vr, vr') \subseteq Lifecycle
       /\ StatusChanges(ud, ud') \subseteq Lifecycle
       /\ \A q \in Inserted(vr, vr') \cup Inserted(ud, ud') : q.status = "pending"]_vars

\* the steps of the executors that download or run an external tool
VocalToolSteps == {"download", "extract", "separate", "merge"}
CompositeToolSteps == {"download", "extract", "separate", "mute_video",
                       "mix", "remux"}

\* the row the executor's task was read from, if the table still holds it
JobRow(rows, task) == {r \in rows : r.created_at = task[1].created_at}

\* C6: while an executor is at a download or at an external-tool step of a
\* job, the record of that job is in processing, never pending: processing
\* was written before the first such step.
C6_ProcessingBeforeTools ==
    /\ vw.pc \in VocalToolSteps =>
          \A r \in JobRow(vr, vw.task) : r.status = "processing"
    /\ cw.pc \in CompositeToolSteps =>
          \A r \in JobRow(ud, cw.task) : r.status = "processing"

\* both executors are inside a job, at the separation and at the mix
C6_Witness ==
    /\ vw.pc = "download"
    /\ JobRow(vr, vw.task) # {}
    /\ cw.pc = "mix"
    /\ JobRow(ud, cw.task) # {}

\* the purge step of a worker: from its start to its first poll
VocalPurgeStep == vw.pc = "start" /\ vw'.pc = "poll"
CompositePurgeStep == cw.pc = "start" /\ cw'.pc = "poll"

\* C7: the purge step of a worker deletes every failed record of its kind
\* and leaves every other record, of both kinds, as it was.
C7_PurgeOnlyFailed ==
    [][/\ VocalPurgeStep =>
             /\ vr' = {r \in vr : r.status # "failed"}
             /\ ud' = ud
       /\ CompositePurgeStep =>
             /\ ud' = {r \in ud : r.status # "failed"}
             /\ vr' = vr]_vars

\* the vocal worker has just purged one failed record and left a record
\* that was in processing when the process was killed
C7_Witness ==
    /\ vw.pc = "poll"
    /\ vw.deleted_count = 1
    /\ \E r \in vr : r.status = "processing"

\* the failed rows of a table that a step removed
FailedRemoved(rows, rows2) ==
    {r \in rows : r.status = "failed"
                    /\ \A q \in rows2 : q.created_at # r.created_at}

\* C8 as stated: a failed vocal-removal record leaves the store only in the
\* purge step of the worker's startup.
C8_FailedOnlyPurged ==
    [][FailedRemoved(vr, vr') # {} => VocalPurgeStep]_vars

\* the delete of request_vocal_removal, run by thread t for the URL of r
RetryDeleteStep(t, r) ==
    /\ reqs[t].pc = "delete"
    /\ reqs'[t].pc = "create"
    /\ reqs[t].video_url = r.video_url

\* C8: the worker deletes failed vocal-removal records in the purge step of
\* its startup and in no later step of its loop; the only other step that
\* removes a failed record is the delete of a request_vocal_removal call for
\* that record's URL, which re-admits the job without a restart.
C8_FailedPurgedOrRetried ==
    [][/\ \A r \in FailedRemoved(vr, vr') :
             \/ VocalPurgeStep
             \/ \E t \in Threads : RetryDeleteStep(t, r)
       /\ (vw' # vw /\ ~VocalPurgeStep) => FailedRemoved(vr, vr') = {}]_vars

\* a request has deleted the failed record it read while the worker, past
\* its startup, sleeps between two polls
C8_Witness ==
    /\ vw.pc = "sleep"
    /\ \E t \in Threads :
          /\ reqs[t].pc = "create"
          /\ reqs[t].existing_task # 0
          /\ \A r \in vr : r.video_url # reqs[t].video_url

\* thread t returns from a request_vocal_removal call that had read a
\* failed record
RetryReturnStep(t) ==
    /\ reqs[t].pc = "create"
    /\ reqs[t].existing_task # 0
    /\ reqs'[t].pc = "idle"
    /\ response' # <<>>

\* C9: a request_vocal_removal call that read a failed record deletes the
\* record of its URL; when the call returns, the failed record is gone and a
\* newer record for the URL is stored, which the call, unless it lost the
\* INSERT to a concurrent call, has just created pending with no output path
\* and no error message; no record ever goes from failed to pending.
C9_FailedIsReplaced ==
    [][/\ \A t \in Threads :
             (reqs[t].pc = "delete" /\ reqs'[t].pc = "create")
             => \A r \in vr' : r.video_url # reqs[t].video_url
       /\ \A t \in Threads :
             RetryReturnStep(t)
             => /\ \A r \in vr' : r.created_at # reqs[t].existing_task
                /\ \E r \in vr' : /\ r.video_url = reqs[t].video_url
                                   /\ r.created_at > reqs[t].existing_task
                /\ response'[1].code = 200
                     => /\ Inserted(vr, vr') =
                             {[created_at |-> vrSeq', id |-> NewId(vr, vrSeq),
                               video_url |-> reqs[t].video_url,
                               status |-> "pending",
                               output_video_path |-> NULL,
                               error_message |-> NULL]}
                        /\ response'[1].status = "pending"
       /\ <<"failed", "pending">> \notin StatusChanges(vr, vr')]_vars

\* two calls read the failed first record of a URL; one of them has just
\* returned the fresh pending record, the other has not deleted yet
C9_Witness ==
    /\ response = <<[code |-> 200, status |-> "pending", video_url |-> UrlA,
                     output_video_path |-> NULL, error_message |-> NULL]>>
    /\ \E r \in vr : /\ r.video_url = UrlA
                      /\ r.created_at = 2
                      /\ r.status = "pending"
    /\ \E t \in Threads : /\ reqs[t].pc = "delete"
                           /\ reqs[t].video_url = UrlA
                           /\ reqs[t].existing_task = 1

\* an exception of a step of the job is in flight in the executor
VocalFailing == vw.exc # NULL
CompositeFailing == cw.exc # NULL \/ cw.cache_exc # NULL

\* the prefixes of the working directories of each kind of job
VocalPrefixes == {"vocal_removal"}
CompositePrefixes == {"composite", "composite_final"}

\* the working directories of the job of a task
JobDirs(alldirs, prefixes, task) ==
    {d \in alldirs : d.prefix \in prefixes /\ d.job = task[1].created_at}

\* the executor returns its failure dict for the exception exc
FailureReturn(kind, task, exc) ==
    result' = <<[job |-> task[1].created_at, kind |-> kind, success |-> FALSE,
                 output_path |-> NULL, error |-> exc]>>

ExecutorEnds(w, w2) ==
    /\ w.task # NoTask
    /\ w2.task = NoTask
    /\ w2.pc \notin {"done", "start"}

\* the executor returns to the for loop, which goes on with the snapshot
ReturnsToLoop(w, w2) ==
    /\ result' # <<>>
    /\ w2.pc = "iter"
    /\ w2.pending_tasks = w.pending_tasks

\* C11: whatever call of an executor raises, a store write, mkdtemp and the
\* write of the failed status included, the executor returns its dict to
\* the for loop with the record failed, and the loop goes on with the
\* remaining jobs of its snapshot.
C11_NoEscape ==
    [][/\ ExecutorEnds(vw, vw')
          => /\ ReturnsToLoop(vw, vw')
             /\ vw.exc # NULL
                  => \A r \in vr' : r.id = vw.task[1].id => r.status = "failed"
       /\ ExecutorEnds(cw, cw')
          => /\ ReturnsToLoop(cw, cw')
             /\ cw.exc # NULL
                  => \A r \in ud' : r.id = cw.task[1].id => r.status = "failed"]_vars

\* the cache holds the artifact: a row for the key and the file of the row
Cached(cache_key) ==
    \E c \in mc : c.cache_key = cache_key /\ c.file_path \in files

MediaSteps == CompositeToolSteps \cup {"v_download", "v_stack"}

\* the user's file a job refers to: the video in video mode, else the audio
UserMedia(task) ==
    IF TaskMode(task) = "video"
    THEN IF "user_video_path" \in DOMAIN task THEN task.user_video_path ELSE NULL
    ELSE task.user_audio_path

\* C13: the composite executor is never at a download or at a tool step of
\* a job whose user media file does not exist.
C13_MissingMediaNoTools ==
    (cw.task # NoTask /\ cw.pc \in MediaSteps)
        => UserMedia(cw.task[1]) \in files

\* the statuses in which a job has ended
TerminalStatuses == {"completed", "failed"}

\* the row created at c reaches a terminal status in the step
ReachesTerminal(rows, rows2, c) ==
    /\ \E r \in rows2 : r.created_at = c /\ r.status \in TerminalStatuses
    /\ \A r \in rows : r.created_at = c => r.status \notin TerminalStatuses

\* no row of the table created after c has ended already
NoYoungerEnded(rows, c) ==
    \A r \in rows : r.created_at > c => r.status \notin TerminalStatuses

\* C14: within one job kind the rows reach a terminal status in the order
\* of their creation: when a row reaches completed or failed, no row of its
\* table that was created after it has reached a terminal status before.
C14_TerminalInCreationOrder ==
    [][/\ \A r \in vr' : ReachesTerminal(vr, vr', r.created_at)
                              => NoYoungerEnded(vr, r.created_at)
       /\ \A r \in ud' : ReachesTerminal(ud, ud', r.created_at)
                              => NoYoungerEnded(ud, r.created_at)]_vars

\* the jobs of a kind that have a working directory: their executor has
\* started and has not returned
JobsInFlight(prefixes) == {d.job : d \in {e \in dirs : e.prefix \in prefixes}}

\* C15: at most one job of each kind is being executed at any time, and
\* when the executor of a job has started, the executor of the previous job
\* of the kind has returned and has left nothing behind.
C15_OneJobPerKind ==
    /\ Cardinality(JobsInFlight(VocalPrefixes)) <= 1
    /\ Cardinality(JobsInFlight(CompositePrefixes)) <= 1
    /\ vw.pc = "mkdtemp" => JobsInFlight(VocalPrefixes) = {}
    /\ cw.pc = "mkdtemp" => JobsInFlight(CompositePrefixes) = {}
    /\ vw.task # NoTask => JobsInFlight(VocalPrefixes) \subseteq {vw.task[1].created_at}
    /\ cw.task # NoTask => JobsInFlight(CompositePrefixes) \subseteq {cw.task[1].created_at}

\* a job is being executed while the next one waits in the snapshot
C15_Witness ==
    /\ vw.pc = "download"
    /\ vw.pending_tasks # <<>>
    /\ JobsInFlight(VocalPrefixes) = {vw.task[1].created_at}

\* C16: while the executor of one kind is inside its download or inside a
\* tool run, the loop of the other kind, when its sleep is over, can poll
\* the store and go on with its own jobs.
C16_OtherLoopProgresses ==
    /\ (vw.pc \in {"download"} \cup VocalToolSteps /\ cw.pc = "sleep")
           => ENABLED CompositePoll
    /\ (cw.pc \in CompositeToolSteps /\ vw.pc = "sleep")
           => ENABLED VocalPoll

\* the rows of a snapshot
Snapshot(pending_tasks) == {pending_tasks[i] : i \in DOMAIN pending_tasks}

\* the pending rows of a table
PendingRows(rows) == {r \in rows : r.status = "pending"}

\* C17: a worker loop ends only by the cancellation of stop_worker; an
\* exception that reaches the loop sends it to a backoff sleep longer than
\* its polling interval, and the poll after the backoff takes every pending
\* row, those enqueued after the exception included.
C17_LoopEndsOnlyOnCancel ==
    [][/\ (vw.pc # "done" /\ vw'.pc = "done") => StopWorker
       /\ (cw.pc # "done" /\ cw'.pc = "done") => StopWorker
       /\ vw'.pc = "backoff" => BackoffSeconds > VOCAL_REMOVAL_CHECK_INTERVAL
       /\ cw'.pc = "backoff" => BackoffSeconds > COMPOSITE_VIDEO_CHECK_INTERVAL
       /\ (vw.pc = "backoff" /\ vw' # vw)
             => \/ vw'.pc = "done"
                \/ vw'.pc = "iter" /\ Snapshot(vw'.pending_tasks) = PendingRows(vr)
       /\ (cw.pc = "backoff" /\ cw' # cw)
             => \/ cw'.pc = "done"
                \/ cw'.pc = "iter" /\ Snapshot(cw'.pending_tasks) = PendingRows(ud)]_vars

\* the only request made so far has just created its row, while the vocal
\* loop was already in its backoff sleep, and the loop can poll
C17_Witness ==
    /\ vw.pc = "backoff"
    /\ enqueued = 1
    /\ vrSeq = 1
    /\ response # <<>>
    /\ response[1].status = "pending"
    /\ PendingRows(vr) # {}
    /\ ENABLED VocalPoll

\* the cache of a URL is populated: both artifacts are stored
Populated(video_url) ==
    Cached(BgCacheKey(video_url)) /\ Cached(MuteCacheKey(video_url))

\* C18: once the cache of a URL is populated (and its files are still
\* there), no audio-mode job against the URL downloads the source, extracts
\* its audio or separates it: the executor is at none of these steps for a
\* URL whose cache is populated.
C18_CacheBuiltOnce ==
    (cw.task # NoTask /\ cw.pc \in {"download", "extract", "separate"})
        => ~Populated(cw.task[1].original_video_url)

\* the second job against a URL mixes from the cache the first one left,
\* without a cache-building directory
C18_Witness ==
    /\ cw.task # NoTask
    /\ cw.pc = "mix"
    /\ cw.task[1].created_at = 2
    /\ Populated(cw.task[1].original_video_url)
    /\ \E r \in ud : /\ r.created_at = 1
                      /\ r.status = "completed"
                      /\ r.original_video_url = cw.task[1].original_video_url
    /\ \A d \in dirs : d.prefix # "composite"

\* create_composite_video has answered with the id of a task
DubbingAccepted(resp) ==
    /\ resp # <<>>
    /\ resp[1].code = 200
    /\ "task_id" \in DOMAIN resp[1]

\* C19: every create_composite_video call that succeeds adds exactly one
\* record to the table and changes no other: the record is pending, its id
\* is the one returned and differs from the id of every record that exists,
\* whatever submissions for the same user and URL are there already.
C19_OneFreshRecord ==
    [][DubbingAccepted(response')
          => /\ ud \subseteq ud'
             /\ Cardinality(ud' \ ud) = 1
             /\ \A q \in ud' \ ud :
                   /\ q.status = "pending"
                   /\ q.id = response'[1].task_id
                   /\ \A r \in ud : r.id # q.id]_vars

\* the call was answered while a completed record of the same user for the
\* same URL exists
C19_Witness ==
    /\ DubbingAccepted(response)
    /\ \E q \in ud, r \in ud :
          /\ q.id = response[1].task_id
          /\ q.status = "pending"
          /\ r.id # q.id
          /\ r.status = "completed"
          /\ r.user_id = q.user_id
          /\ r.original_video_url = q.original_video_url

\* the error of the step at which the executor's job failed: the one
\* raised while the cache was built, if any, else the one raised later
StepError(w) ==
    IF "cache_exc" \in DOMAIN w /\ w.cache_exc # NULL THEN w.cache_exc ELSE w.exc

\* the rows of the executor's task that the step turns to failed
TurnsFailed(rows, rows2, task) ==
    {q \in rows2 : /\ task # NoTask
                   /\ q.id = task[1].id
                   /\ q.status = "failed"
                   /\ \E r \in rows : r.id = q.id /\ r.status # "failed"}

\* C20: when a job fails, the error message stored on its record is the
\* error of the step that failed, the steps that build the cache in audio
\* mode included.
C20_ErrorNamesStep ==
    [][/\ \A q \in TurnsFailed(vr, vr', vw.task) : q.error_message = StepError(vw)
       /\ \A q \in TurnsFailed(ud, ud', cw.task) : q.error_message = StepError(cw)]_vars

\* C21: in the separation step a tool that exits non-zero and a tool that
\* exits with success but leaves no accompaniment file give the job
\* different failure results: no step of an executor is the outcome of both.
C21_SeparationFailuresDiffer ==
    [][/\ ~(VocalSeparateRun("nonzero") /\ VocalSeparateRun("no_file"))
       /\ ~(CompositeSeparateRun("nonzero") /\ CompositeSeparateRun("no_file"))]_vars

\* the executor is between its claim and its terminal write
InJob(w) == w.task # NoTask /\ ~(w.pc = "rmtree" /\ w.exc = NULL)

\* the processing rows no executor of the process is working on
Unattended(rows, w) ==
    {r \in rows : /\ r.status = "processing"
                  /\ w.task = NoTask \/ w.task[1].id # r.id}

\* the ids a loop holds in its snapshot
SnapshotIds(w) == {q.id : q \in Snapshot(w.pending_tasks)}

\* C22: when the process is killed while a job is between its claim and its
\* terminal write, the record is processing after the restart; a processing
\* record that no executor works on is never selected by a loop and never
\* changes (a composite one can only be deleted by its user), and a
\* request for its URL is answered with the processing record and goes on
\* to no delete and no insert.
C22_StuckProcessing ==
    [][/\ (InJob(vw) /\ vw'.pc = "start")
             => \A r \in JobRow(vr', vw.task) : r.status = "processing"
       /\ (InJob(cw) /\ cw'.pc = "start")
             => \A r \in JobRow(ud', cw.task) : r.status = "processing"
       /\ \A r \in Unattended(vr, vw) :
             /\ r \in Unattended(vr', vw')
             /\ r.id \notin SnapshotIds(vw')
             /\ \A t \in Threads :
                   (reqs[t].pc = "idle" /\ reqs'[t].pc # "idle")
                       => reqs'[t].video_url # r.video_url
             /\ (/\ response' # <<>>
                 /\ "video_url" \in DOMAIN response'[1]
                 /\ response'[1].video_url = r.video_url)
                   => response'[1].status = "processing" /\ vr' = vr
       /\ \A r \in Unattended(ud, cw) :
             \/ r \in Unattended(ud', cw') /\ r.id \notin SnapshotIds(cw')
             \/ \A q \in ud' : q.created_at # r.created_at]_vars

\* after a restart the worker has polled and sleeps, and a request for the
\* URL of the record left processing has just been answered with it
C22_Witness ==
    /\ vw.pc = "sleep"
    /\ response # <<>>
    /\ "video_url" \in DOMAIN response[1]
    /\ response[1].status = "processing"
    /\ \E r \in Unattended(vr, vw) : r.video_url = response[1].video_url

\* the rows whose execution starts in the step of the loop from w to w2
Started(rows, w, w2) ==
    IF w.task = NoTask /\ w2.task # NoTask
    THEN {r \in rows : r.id = w2.task[1].id}
    ELSE {}

\* C23: with the server's loop alone every execution starts on a record
\* that is pending, so that no record is executed twice; with a second
\* loop on the same store both loops can be inside the job of one record.
C23_OneLoopClaimsPending ==
    [][rw.pc = "absent"
          => \A r \in Started(vr, vw, vw') : r.status = "pending"]_vars

\* both loops read the record as pending and both executors are inside
\* its job
C23_Witness ==
    /\ vw.task # NoTask
    /\ rw.task # NoTask
    /\ vw.task[1].created_at = rw.task[1].created_at
    /\ vw.task[1].status = "pending"
    /\ rw.task[1].status = "pending"
    /\ vw.pc = "download"
    /\ rw.pc = "download"

\* '/vocal_removed/<hash>_no_vocals<ext>' for a URL
ExpectedOutput(video_url) ==
    "/vocal_removed/" \o get_url_hash(video_url) \o "_no_vocals"
        \o (IF PathSuffix(video_url) = "" THEN ".mp4" ELSE PathSuffix(video_url))

\* a response that carries the task of a URL
TaskResponse(resp) ==
    resp # <<>> /\ resp[1].code = 200 /\ "video_url" \in DOMAIN resp[1]

\* C24: the request that creates the task of a URL is answered pending;
\* when every step of the job has succeeded the record is completed, and
\* every answer that reports completed carries the path
\* '/vocal_removed/<hash>_no_vocals<ext>' of its URL, which depends on the
\* URL alone.
C24_CompletedPath ==
    [][/\ vrSeq' # vrSeq
             => TaskResponse(response') /\ response'[1].status = "pending"
       /\ (result' # <<>> /\ result'[1].kind = "vocal" /\ result'[1].success)
             => /\ result'[1].output_path = ExpectedOutput(vw.task[1].video_url)
                /\ \A r \in vr' : r.created_at = vw.task[1].created_at
                       => r.status = "completed"
       /\ (TaskResponse(response') /\ response'[1].status = "completed")
             => response'[1].output_video_path
                    = ExpectedOutput(response'[1].video_url)]_vars

\* after the one request made, the status of the URL without a suffix is
\* answered completed with the .mp4 path
C24_Witness ==
    /\ enqueued = 1
    /\ TaskResponse(response)
    /\ response[1].video_url = UrlB
    /\ response[1].status = "completed"
    /\ response[1].output_video_path = ExpectedOutput(UrlB)

\* the steps of process_audio_dubbing_task and of process_video_dubbing_task
AudioProcedure == {"lookup", "download", "extract", "separate", "store_background",
                   "mute_video", "cache_rmtree", "useraudio", "mix", "remux"}
VideoProcedure == {"v_lookup", "v_download", "v_uservideo", "v_stack"}

\* the task carries mode = video
IsVideoTask(task) == "mode" \in DOMAIN task /\ task.mode = "video"

\* C27: the composite executor is inside the video procedure only for a
\* task whose mode is video and inside the audio procedure only for any
\* other task, a record without a mode field included; within one job it
\* never passes from one procedure to the other.
C27_OneProcedurePerMode ==
    [][/\ (cw'.task # NoTask /\ cw'.pc \in VideoProcedure) => IsVideoTask(cw'.task[1])
       /\ (cw'.task # NoTask /\ cw'.pc \in AudioProcedure) => ~IsVideoTask(cw'.task[1])
       /\ cw.pc \in VideoProcedure => cw'.pc \notin AudioProcedure
       /\ cw.pc \in AudioProcedure => cw'.pc \notin VideoProcedure]_vars

\* a record created by create_composite_video, which has no mode field, is
\* inside the audio procedure
C27_Witness ==
    /\ cw.task # NoTask
    /\ "mode" \notin DOMAIN cw.task[1]
    /\ cw.pc = "mix"
    /\ \E r \in ud : IsVideoTask(r) /\ r.status \in {"completed", "failed"}

\* the executor is inside the job of a video-mode task
VideoJob(w) == w.task # NoTask /\ IsVideoTask(w.task[1])

\* C28: a step of a video-mode job changes no MediaCache row and no cache
\* file and leads to no extraction, separation or mute-video creation; the
\* job downloads the source only when the muted copy of its URL is not on
\* disk, and uses the copy when it is.
C28_VideoModeFrame ==
    [][VideoJob(cw) /\ cw' # cw
          => LET copy == MuteFilePath(cw.task[1].original_video_url) IN
             /\ mc' = mc
             /\ files' = files
             /\ cw'.pc \notin {"download", "extract", "separate", "store_background",
                               "mute_video"}
             /\ \A d \in dirs' : d.prefix # "composite"
             /\ (cw.pc # "v_download" /\ cw'.pc = "v_download") => copy \notin files
             /\ (cw.pc = "v_lookup" /\ copy \in files)
                   => cw'.pc = "v_uservideo"]_vars

\* a video-mode job stacks the cached muted copy of its source
C28_Witness ==
    /\ VideoJob(cw)
    /\ cw.pc = "v_stack"
    /\ MuteFilePath(cw.task[1].original_video_url) \in files
    /\ \A d \in dirs : d.prefix = "composite_final"

\* the names the pipelines derive from a source URL
DerivedNames(video_url) ==
    <<BgCacheKey(video_url), MuteCacheKey(video_url), BgFilePath(video_url),
      MuteFilePath(video_url), VocalOutputPath(video_url)>>

\* the job in the executor was answered from the cache
ServedFromCache(w) == w.task # NoTask /\ w.pc = "useraudio"

\* distinct source URLs have distinct cache keys, cache files and output files
DistinctNames ==
    \A u1, u2 \in DigestUrls \cup Urls :
       u1 # u2 => \A i \in 1..5 : DerivedNames(u1)[i] # DerivedNames(u2)[i]

\* C25: the names derived from distinct source URLs never coincide, so a job
\* answered from the cache is given only entries that were stored for its own
\* source URL.
C25_OwnArtifactServed ==
    ServedFromCache(cw)
       => LET video_url == cw.task[1].original_video_url IN
          \A c \in mc : c.cache_key \in {BgCacheKey(video_url), MuteCacheKey(video_url)}
                           => c.source_url = video_url

\* C26: while both loops keep running and every download and tool run ends,
\* from some moment on every record of both tables is completed or failed: no
\* record stays pending or processing for ever.
C26_EveryRecordEnds ==
    <>[](\A r \in vr \cup ud : r.status \in TerminalStatuses)

\* the working directories with one of the prefixes
DirsOf(alldirs, prefixes) == {d \in alldirs : d.prefix \in prefixes}

\* the steps of get_or_create_background_and_mute_video after its mkdtemp
CacheBuilderSteps ==
    {"download", "extract", "separate", "store_background", "mute_video", "cache_rmtree"}

Rewrites(w, w2) ==
    \/ w.pc = "store_background" /\ w.bg_cache
    \/ w.pc = "mute_video" /\ w.mute_cache /\ w2.cache_exc = NULL

\* the row of the step's artifact
RewrittenRow(w) ==
    get_media_cache(IF w.pc = "store_background"
                    THEN BgCacheKey(w.task[1].original_video_url)
                    ELSE MuteCacheKey(w.task[1].original_video_url))

\* C30: after every step media_cache has at most one row per (source URL,
\* kind), no step removes or changes a row, and a cache-building step whose
\* lookup had found the row writes the file at the row's path and leaves the
\* table as it is.
C30_CacheRowsAreFinal ==
    [][/\ \A c1, c2 \in mc' :
             c1.source_url = c2.source_url /\ c1.cache_type = c2.cache_type => c1 = c2
       /\ mc \subseteq mc'
       /\ Rewrites(cw, cw') /\ cw' # cw
             => /\ mc' = mc
                /\ RewrittenRow(cw) # <<>>
                /\ RewrittenRow(cw)[1].file_path \in files']_vars

\* a recomputation that found both rows without their files has written both
\* files again, and the table still has its two rows
C30_Witness ==
    /\ cw.pc = "cache_rmtree"
    /\ cw.bg_cache
    /\ cw.mute_cache
    /\ cw.cache_exc = NULL
    /\ Cardinality(mc) = 2
    /\ \A c \in mc : c.file_path \in files

\* C31: while no cache file is removed from outside, the file of every row of
\* media_cache exists, also after a step of the cache builder has failed.
C31_CacheRowsHaveFiles == \A c \in mc : c.file_path \in files

\* the mute-video step has failed after the background row was stored
C31_Witness ==
    /\ cw.pc = "cache_rmtree"
    /\ cw.cache_exc = ErrMute
    /\ ~cw.bg_cache
    /\ \E c \in mc : c.cache_type = "background" /\ c.file_path \in files
    /\ \A c \in mc : c.cache_type # "mute-video"

\* the rows of a table that are no longer pending stay so
NeverPendingAgain(rows, rows2) ==
    \A r \in rows, q \in rows2 :
       (q.created_at = r.created_at /\ r.status # "pending") => q.status # "pending"

\* the step that starts an executor finds its record pending and leaves it
\* processing
StartsOnPending(rows, rows2, w, w2) ==
    \A r \in Started(rows, w, w2) :
       /\ r.status = "pending"
       /\ \A q \in rows2 : q.id = r.id => q.status = "processing"

\* C32: with one loop per kind, also across restarts of the process, an
\* executor is started only for a record stored as pending, the start turns
\* the record to processing, and a record that is not pending any more is
\* never pending again: no record is executed twice.
C32_ExecutedOnce ==
    [][/\ StartsOnPending(vr, vr', vw, vw')
       /\ StartsOnPending(ud, ud', cw, cw')
       /\ NeverPendingAgain(vr, vr')
       /\ NeverPendingAgain(ud, ud')]_vars

\* after a restart both loops have polled and sleep with empty snapshots
\* while a record of each table is left processing
C32_Witness ==
    /\ vw.pc = "sleep"
    /\ cw.pc = "sleep"
    /\ vw.pending_tasks = <<>>
    /\ cw.pending_tasks = <<>>
    /\ Unattended(vr, vw) # {}
    /\ Unattended(ud, cw) # {}

\* the step cancels the loop w, which becomes w2
Cancelled(w, w2) == w.pc # "done" /\ w2.pc = "done"

\* the row of the job in flight is processing and the rows of the rest of
\* the snapshot are pending, as far as the table still holds them
LeftAsClaimed(rows, w) ==
    /\ w.pc \in {"download", "v_download"}
          => \A r \in JobRow(rows, w.task) : r.status = "processing"
    /\ \A q \in Snapshot(w.pending_tasks), r \in rows :
          r.created_at = q.created_at => r.status = "pending"

\* C33: the step that cancels the worker tasks writes no status and returns
\* no result; the record of a job that was awaiting its download is left
\* processing and the records of the snapshot that had not started are left
\* pending.
C33_CancelWritesNothing ==
    [][Cancelled(vw, vw') \/ Cancelled(cw, cw')
          => /\ vr' = vr
             /\ ud' = ud
             /\ result' = <<>>
             /\ LeftAsClaimed(vr', vw)
             /\ LeftAsClaimed(ud', cw)]_vars

\* a vocal-removal job awaits its download, another record of its snapshot
\* has not been started, and the worker tasks can be cancelled
C33_Witness ==
    /\ vw.pc = "download"
    /\ vw.pending_tasks # <<>>
    /\ running = "none"
    /\ JobRow(vr, vw.task) # {}
    /\ \A r \in JobRow(vr, vw.task) : r.status = "processing"
    /\ ENABLED StopWorker

\* the task of the loop is not finished and no cancellation of it is pending
LoopRuns(kind, w) == w.pc # "done" /\ kind \notin lifecycle.must_cancel

\* C34: when start_worker was the last call, a loop of each kind is running
\* or about to run, also when the call came right after stop_worker.
C34_StartLeavesLoops ==
    lifecycle.last_call = "start_worker"
       => LoopRuns("vocal", vw) /\ LoopRuns("composite", cw)

\* media_cache holds the background row of a URL and not its mute-video row
PartialCache(rows, video_url) ==
    /\ \E c \in rows : c.cache_key = BgCacheKey(video_url)
    /\ \A c \in rows : c.cache_key # MuteCacheKey(video_url)

\* the rows of media_cache of one kind
RowsOfType(rows, cache_type) == {c \in rows : c.cache_type = cache_type}

\* the builder works for a job whose lookup found the background row only
Rebuilding(w) == w.pc \in CacheBuilderSteps /\ w.bg_cache /\ ~w.mute_cache

\* C35: a mute-video step that fails after the background row was stored
\* leaves that row alone and sends the job to its failure; a later lookup
\* that finds the background row without the mute-video row is a miss, the
\* builder then goes again through download, extraction and separation,
\* inserts no background row and, when the mute video is made, exactly the
\* mute-video row.
C35_PartialCacheIsRebuilt ==
    [][cw.task # NoTask /\ cw' # cw /\ cw'.task = cw.task
          => LET video_url == cw.task[1].original_video_url IN
             /\ (cw.pc = "mute_video" /\ ~cw.bg_cache /\ ~cw.mute_cache
                    /\ cw'.cache_exc # NULL)
                   => mc' = mc /\ PartialCache(mc', video_url)
             /\ (cw.pc = "cache_rmtree" /\ cw.cache_exc # NULL)
                   => cw'.pc = "rmtree" /\ cw'.exc = ErrCache
             /\ (cw.pc = "lookup" /\ PartialCache(mc, video_url))
                   => cw'.pc = "download" /\ cw'.bg_cache /\ ~cw'.mute_cache
             /\ Rebuilding(cw)
                   => /\ RowsOfType(mc', "background") = RowsOfType(mc, "background")
                      /\ cw.pc = "download" => cw'.pc \in {"extract", "cache_rmtree"}
                      /\ cw.pc = "extract" => cw'.pc \in {"separate", "cache_rmtree"}
                      /\ cw.pc = "separate" => cw'.pc \in {"store_background", "cache_rmtree"}
                      /\ cw.pc = "store_background" => cw'.pc = "mute_video" /\ mc' = mc
                      /\ (cw.pc = "mute_video" /\ cw'.cache_exc = NULL)
                            => /\ Cardinality(mc' \ mc) = 1
                               /\ \A c \in mc' \ mc :
                                     /\ c.cache_key = MuteCacheKey(video_url)
                                     /\ c.cache_type = "mute-video"]_vars

\* the second job against the URL has rebuilt the cache whose background
\* row the failed first job had left, and the table has its two rows
C35_Witness ==
    /\ cw.task # NoTask
    /\ cw.pc = "cache_rmtree"
    /\ cw.cache_exc = NULL
    /\ cw.bg_cache
    /\ ~cw.mute_cache
    /\ Cardinality(RowsOfType(mc, "background")) = 1
    /\ Cardinality(RowsOfType(mc, "mute-video")) = 1
    /\ \E r \in ud : /\ r.status = "failed"
                      /\ r.original_video_url = cw.task[1].original_video_url

\* the record of the executor's task has been deleted
TaskDeleted(rows, w) == w.task # NoTask /\ JobRow(rows, w.task) = {}

\* with the ids of MySQL, which are not given out again, no step of an
\* executor whose record is deleted changes the table
DeletedUntouchedOnMySQL ==
    [][engine = "mysql" /\ TaskDeleted(ud, cw) /\ cw' # cw => ud' = ud]_vars

\* C36: while the record of the executor's task is deleted, no step of the
\* executor changes the table: its status writes for the task's id change
\* nothing and insert nothing.
C36_DeletedStaysUntouched ==
    [][TaskDeleted(ud, cw) /\ cw' # cw => ud' = ud]_vars

\* the columns a status response reports
Reported(r, path) == <<r.status, path, r.error_message>>

\* the stores and files a status endpoint has to leave alone
StatusFrame ==
    UNCHANGED <<vr, vrSeq, ud, udSeq, mc, files, dirs, vw, cw, reqs>>

\* C37: a call of get_vocal_removal_status or get_composite_video_status
\* changes no record, file or worker; when a record has the key its answer
\* is 200 with exactly the stored status, output path and error message of
\* that record, and when none has it the answer is 404.
C37_StatusReadsStore ==
    [][/\ \A u \in Urls :
             GetVocalRemovalStatus(u)
                => /\ StatusFrame
                   /\ \A r \in vr : r.video_url = u
                         => /\ response'[1].code = 200
                            /\ response'[1].video_url = u
                            /\ Reported(response'[1], response'[1].output_video_path)
                                  = Reported(r, r.output_video_path)
                   /\ (\A r \in vr : r.video_url # u) => response' = <<[code |-> 404]>>
       /\ \A id \in 1..(MaxPolledJobs + 1) :
             GetCompositeVideoStatus(id)
                => /\ StatusFrame
                   /\ \A r \in ud : r.id = id
                         => /\ response'[1].code = 200
                            /\ response'[1].task_id = id
                            /\ Reported(response'[1], response'[1].composite_video_path)
                                  = Reported(r, r.composite_video_path)
                   /\ (\A r \in ud : r.id # id) => response' = <<[code |-> 404]>>]_vars

\* the composite endpoint has answered with a failed record and its stored
\* error, and the vocal-removal table is empty after a purge
C37_Witness ==
    /\ response # <<>>
    /\ "task_id" \in DOMAIN response[1]
    /\ response[1].status = "failed"
    /\ \E r \in ud : r.id = response[1].task_id /\ r.error_message = response[1].error_message
    /\ response[1].error_message # NULL
    /\ vr = {}
    /\ vrSeq > 0

\* the task returns in this step
GenReturns == gt' # gt /\ gt'.pc = "idle"

====
